---- MODULE Spec2Model ----
(***************************************************************************)
(* Model of the horcrux-monitoring daemon: the Checker (stateful health    *)
(* checks over a metrics snapshot), the StateManager (alert lifecycle,     *)
(* digest schedule, state file) and the loop of main() that drives them.   *)
(*                                                                         *)
(* Python dicts are sequences of [key, val] entries, so that insertion     *)
(* order is kept as CPython keeps it.  An Optional value is None (<<>>) or *)
(* Some(v) (<<v>>).  Metric values are whole numbers, on which int() is    *)
(* the identity.  An f-string message is the tuple of its label and its    *)
(* interpolated values.                                                    *)
(***************************************************************************)
EXTENDS Integers, Sequences, FiniteSets, TLC

VARIABLES
    config,          \* Config: the cosigner and sentry lists of the horcrux config
    checker,         \* the Checker instance: its prev_* values and streak counters
    metrics,         \* what fetch_metrics returned to the last run()
    raised,          \* the exception the last run() ended with, or None
    report,          \* the last FullReport that run() returned / process_report got
    active_alerts,   \* StateManager.active_alerts: dict alert_key -> AlertState
    now,             \* last reading of time.time() in process_report
    result,          \* dict returned by the last process_report call
    prior_alerts,    \* active_alerts as it was when the last process_report began
    observed,        \* history: the metric names seen by run() so far, and the
                     \* last readings of the values its streak checks compare
    presence,        \* history: per alert_key, the number of reports in a row,
                     \* up to the last one, that held a problem with that key
    entered,         \* history: per alert_key of the last processed report's
                     \* problems, the time of the report with which its present
                     \* run of reports began
    probed,          \* what fetch_block_height returned for each configured
                     \* sentry in the last run()
    last_scheduled_hour,  \* StateManager.last_scheduled_hour
    due,             \* what the last is_scheduled_report_due call returned
    sched_log,       \* history: last_scheduled_hour at construction, and the
                     \* (hour, answer) of each is_scheduled_report_due call
    pos,             \* position of main(): "startup", "while", "sleep", "body",
                     \* "deliver", "exited" or "crashed"
    running,         \* the module global that handle_signal clears
    once,            \* args.once as the startup evaluation of the process read it
    state_file,      \* content of the state file: None, or what save_state wrote
    run_log,         \* history: for each logged run(), the Checker memory and
                     \* snapshot it started from and what it produced
    delivery,        \* history: the sends of the last notify_all call, and the
                     \* exception it let through
    outbox           \* history: the messages that the last evaluation of
                     \* main(), startup or loop tick, gave to notify_all

vars == <<config, checker, metrics, raised, report,
          active_alerts, now, result, prior_alerts, observed, presence, entered,
          probed, last_scheduled_hour, due, sched_log, pos, running, once,
          state_file,
          run_log, delivery, outbox>>

checkerVars == <<checker, metrics, raised, observed>>
stateVars == <<active_alerts, now, result, prior_alerts, presence, entered>>
schedVars == <<last_scheduled_hour, due, sched_log>>
mainVars == <<pos, running, once, state_file>>
logVars == <<run_log, delivery, outbox>>

None == <<>>
Some(v) == <<v>>
Val(o) == o[1]

(***************************************************************************)
(* Bounds of the model                                                     *)
(***************************************************************************)
MaxTime == 750           \* the clock is not advanced past this reading
MaxCounter == 1          \* largest value of an error counter
MaxHeight == 2           \* largest signer_last_prevote_height
MaxStaleCount == 5       \* run() is not explored past this height_stale_count
MaxReading == 4          \* largest go_goroutines / missed-shares reading
MaxCalls == 6            \* is_scheduled_report_due calls that sched_log records
MaxSinks == 3            \* longest list of notifiers
MaxAsked == 2            \* is_scheduled_report_due calls made next to process_report
MaxRuns == 3             \* run() calls that run_log records

(***************************************************************************)
(* config.py DEFAULTS                                                      *)
(***************************************************************************)
alert_cooldown == 300
block_time == 6
th_missed_precommits == 3
th_missed_prevotes == 5
th_height_stale_checks == 3

scheduled_hours == {9, 13, 17}

\* seconds that can pass between two ticks: below, and exactly, the cooldown
Intervals == {150, 300}

(***************************************************************************)
(* dict helpers (insertion ordered)                                        *)
(***************************************************************************)
DictKeys(d) == {d[i].key : i \in DOMAIN d}

DictHas(d, k) == k \in DictKeys(d)

DictGet(d, k) == d[CHOOSE i \in DOMAIN d : d[i].key = k].val

\* d[k] = v : replaces in place when the key exists, appends otherwise
DictSet(d, k, v) ==
    IF DictHas(d, k)
    THEN [i \in DOMAIN d |-> IF d[i].key = k THEN [key |-> k, val |-> v] ELSE d[i]]
    ELSE Append(d, [key |-> k, val |-> v])

\* d.pop(k), the remaining dict
DictDel(d, k) == SelectSeq(d, LAMBDA e : e.key # k)

(***************************************************************************)
(* models.py                                                               *)
(***************************************************************************)
OK == "ok"
WARNING == "warning"
CRITICAL == "critical"

\* CheckResult.__post_init__: alert_key defaults to name, severity follows status
CheckResult(name, status, message, alert_key) ==
    [name      |-> name,
     status    |-> status,
     message   |-> message,
     severity  |-> IF status = CRITICAL THEN CRITICAL
                   ELSE IF status = WARNING THEN WARNING
                   ELSE OK,
     alert_key |-> IF alert_key = "" THEN name ELSE alert_key]

AlertState(severity, message, first_seen, last_alerted, count) ==
    [severity     |-> severity,
     message      |-> message,
     first_seen   |-> first_seen,
     last_alerted |-> last_alerted,
     count        |-> count]

(***************************************************************************)
(* state.py : StateManager.process_report                                  *)
(***************************************************************************)
\* lines 83-86: current_problems[check.alert_key] = check for every non-OK check
RECURSIVE CurrentProblems(_, _)
CurrentProblems(checks, current_problems) ==
    IF checks = <<>> THEN current_problems
    ELSE LET check == Head(checks) IN
         CurrentProblems(Tail(checks),
             IF check.status \in {WARNING, CRITICAL}
             THEN DictSet(current_problems, check.alert_key, check)
             ELSE current_problems)

\* a new alert whose last_alerted is left at the epoch
NewAlertState_AlertedAtEpoch(check, t) == AlertState(check.severity, check.message, t, 0, 1)

\* a new alert that starts with no occurrence counted
NewAlertState_CountZero(check, t) == AlertState(check.severity, check.message, t, t, 0)

\* lines 92-98: the AlertState of a new alert
NewAlertState(check, t) == AlertState(check.severity, check.message, t, t, 1)

\* the cooldown measured from first_seen instead of last_alerted
CooldownExpired_FirstSeen(t, alert) == t - alert.first_seen >= alert_cooldown

\* the cooldown test with a strict comparison
CooldownExpired_Strict(t, alert) == t - alert.last_alerted > alert_cooldown

\* line 105: the cooldown test of an ongoing alert
CooldownExpired(t, alert) == t - alert.last_alerted >= alert_cooldown

\* an ongoing alert whose first_seen moves up to its last notification
OngoingAlert_FirstSeenSlides(alert, check) ==
    [alert EXCEPT !.message = check.message, !.count = alert.count + 1,
                  !.first_seen = alert.last_alerted]

\* an ongoing alert whose occurrence is not counted
OngoingAlert_KeepCount(alert, check) == [alert EXCEPT !.message = check.message]

\* lines 101-103: an ongoing alert takes the message of the latest check and
\* counts one more occurrence; its severity is not assigned
OngoingAlert(alert, check) ==
    [alert EXCEPT !.message = check.message, !.count = alert.count + 1]

\* a problem counted as new when its message differs from the active one
IsNewAlert_ByMessage(alerts, key, check) ==
    ~DictHas(alerts, key) \/ DictGet(alerts, key).message # check.message

\* line 90: a problem is new when its key has no AlertState
IsNewAlert(alerts, key, check) == ~DictHas(alerts, key)

\* lines 89-107: one pass over current_problems; acc carries the three outputs
RECURSIVE NewAndOngoing(_, _, _)
NewAndOngoing(current_problems, t, acc) ==
    IF current_problems = <<>> THEN acc
    ELSE LET key   == Head(current_problems).key
             check == Head(current_problems).val
         IN  NewAndOngoing(Tail(current_problems), t,
               IF IsNewAlert(acc.alerts, key, check)
               THEN [alerts     |-> DictSet(acc.alerts, key, NewAlertState(check, t)),
                     new_alerts |-> Append(acc.new_alerts, check),
                     re_alerts  |-> acc.re_alerts]
               ELSE LET alert == DictGet(acc.alerts, key)
                        upd   == OngoingAlert(alert, check)
                    IN  IF CooldownExpired(t, alert)
                        THEN [alerts     |-> DictSet(acc.alerts, key,
                                               [upd EXCEPT !.last_alerted = t]),
                              new_alerts |-> acc.new_alerts,
                              re_alerts  |-> Append(acc.re_alerts, check)]
                        ELSE [alerts     |-> DictSet(acc.alerts, key, upd),
                              new_alerts |-> acc.new_alerts,
                              re_alerts  |-> acc.re_alerts])

\* only the CRITICAL alerts without a current problem are resolved
ResolvedKeys_CriticalOnly(alerts, current_problems) ==
    LET res == SelectSeq(alerts, LAMBDA e : /\ ~DictHas(current_problems, e.key)
                                            /\ e.val.severity = CRITICAL)
    IN  [i \in DOMAIN res |-> res[i].key]

\* an alert whose current problem is only a WARNING is resolved as well
ResolvedKeys_WarningsResolve(alerts, current_problems) ==
    LET res == SelectSeq(alerts, LAMBDA e :
                   \/ ~DictHas(current_problems, e.key)
                   \/ DictGet(current_problems, e.key).status = WARNING)
    IN  [i \in DOMAIN res |-> res[i].key]

\* once one alert has no current problem, every alert is resolved
ResolvedKeys_Sweep(alerts, current_problems) ==
    IF \E i \in DOMAIN alerts : ~DictHas(current_problems, alerts[i].key)
    THEN [i \in DOMAIN alerts |-> alerts[i].key]
    ELSE <<>>

\* line 110: resolved_keys, in the order of active_alerts
ResolvedKeys(alerts, current_problems) ==
    LET res == SelectSeq(alerts, LAMBDA e : ~DictHas(current_problems, e.key))
    IN  [i \in DOMAIN res |-> res[i].key]

\* recoveries whose duration is measured from last_alerted
RECURSIVE Recover_LastAlerted(_, _, _, _)
Recover_LastAlerted(resolved_keys, t, alerts, recoveries) ==
    IF resolved_keys = <<>> THEN [alerts |-> alerts, recoveries |-> recoveries]
    ELSE LET key   == Head(resolved_keys)
             alert == DictGet(alerts, key)
         IN  Recover_LastAlerted(Tail(resolved_keys), t, DictDel(alerts, key),
                     Append(recoveries,
                            [key |-> key, message |-> alert.message,
                             duration |-> t - alert.last_alerted]))

\* lines 111-114: pop every resolved key and append its recovery
RECURSIVE Recover(_, _, _, _)
Recover(resolved_keys, t, alerts, recoveries) ==
    IF resolved_keys = <<>> THEN [alerts |-> alerts, recoveries |-> recoveries]
    ELSE LET key   == Head(resolved_keys)
             alert == DictGet(alerts, key)
         IN  Recover(Tail(resolved_keys), t, DictDel(alerts, key),
                     Append(recoveries,
                            [key |-> key, message |-> alert.message,
                             duration |-> t - alert.first_seen]))

\* the whole of process_report as a function of (active_alerts, report, time.time())
ProcessReportResult(alerts, checks, t) ==
    LET current_problems == CurrentProblems(checks, <<>>)
        pass == NewAndOngoing(current_problems, t,
                    [alerts |-> alerts, new_alerts |-> <<>>, re_alerts |-> <<>>])
        rec  == Recover(ResolvedKeys(pass.alerts, current_problems), t,
                        pass.alerts, <<>>)
    IN  [alerts     |-> rec.alerts,
         new_alerts |-> pass.new_alerts,
         re_alerts  |-> pass.re_alerts,
         recoveries |-> rec.recoveries]

EmptyResult == [new_alerts |-> <<>>, re_alerts |-> <<>>, recoveries |-> <<>>]

\* the history of the reports given to process_report: for every alert_key
\* with a problem in this report, one more than the number it had, and
\* nothing for the other keys
Presence(pres, checks) ==
    LET ks == {checks[i].alert_key : i \in {j \in DOMAIN checks :
                                              checks[j].status \in {WARNING, CRITICAL}}}
    IN  [k \in ks |-> IF k \in DOMAIN pres THEN pres[k] + 1 ELSE 1]

\* the history of when each problem began: for every alert_key with a problem
\* in this report, the time it had if the report before held the problem too,
\* and the time of this report otherwise
Entered(ent, pres, checks, t) ==
    [k \in DOMAIN Presence(pres, checks) |->
        IF k \in DOMAIN pres THEN ent[k] ELSE t]

\* process_report(report) with time.time() returning t
process_report(rep, t) ==
    \E r \in {ProcessReportResult(active_alerts, rep.checks, t)} :
    /\ presence' = Presence(presence, rep.checks)
    /\ entered' = Entered(entered, presence, rep.checks, t)
    /\ now' = t
    /\ prior_alerts' = active_alerts
    /\ active_alerts' = r.alerts
    /\ result' = [new_alerts |-> r.new_alerts,
                  re_alerts  |-> r.re_alerts,
                  recoveries |-> r.recoveries]

(***************************************************************************)
(* collector.py                                                            *)
(***************************************************************************)
\* get_metric: metrics.get(name)
get_metric(m, name) == IF name \in DOMAIN m THEN Some(m[name]) ELSE None

(***************************************************************************)
(* thresholds the checker reads that config.py DEFAULTS does not set: they *)
(* come from the deployment's config file                                  *)
(***************************************************************************)
th_sign_finish_stale_factor == 5
th_ephemeral_share_stale_factor == 10
th_sentry_height_divergence == 5
th_fd_usage_percent == 80
th_memory_bytes == 100
th_goroutine_growth_checks == 3

(***************************************************************************)
(* state.py : StateManager.is_scheduled_report_due                         *)
(***************************************************************************)
\* the gate without the test that the hour is a target hour
ScheduledReportDue_AnyHour(last, current_hour) == last # Some(current_hour)

\* a gate that stays shut while an alert is active
ScheduledReportDue_OnlyWhenCalm(last, current_hour) ==
    current_hour \in scheduled_hours /\ last # Some(current_hour) /\ active_alerts = <<>>

\* lines 127-138: the value returned when datetime.now(tz).hour is
\* current_hour; the else branch of line 131 only passes
ScheduledReportDue(last, current_hour) ==
    current_hour \in scheduled_hours /\ last # Some(current_hour)

\* lines 122-138: last_scheduled_hour is assigned on the path that returns
\* True and nowhere else
is_scheduled_report_due(current_hour) ==
    /\ due' = ScheduledReportDue(last_scheduled_hour, current_hour)
    /\ last_scheduled_hour' = IF due' THEN Some(current_hour) ELSE last_scheduled_hour

(***************************************************************************)
(* checker.py : Checker                                                    *)
(***************************************************************************)
\* a Checker whose counters start from 0 instead of None
NewChecker_Zero ==
    [prev_insufficient_cosigners |-> Some(0),
     prev_raft_election_timeouts |-> Some(0),
     prev_missed_shares          |-> <<>>,
     cosigner_miss_streak        |-> <<>>,
     prev_height                 |-> None,
     height_stale_count          |-> 0,
     prev_sentry_connect_tries   |-> Some(0),
     prev_invalid_signatures     |-> Some(0),
     prev_beyond_block_errors    |-> Some(0),
     prev_failed_sign_votes      |-> Some(0),
     prev_goroutines             |-> None,
     goroutine_grow_streak       |-> 0]

\* Checker.__init__
NewChecker ==
    [prev_insufficient_cosigners |-> None,
     prev_raft_election_timeouts |-> None,
     prev_missed_shares          |-> <<>>,
     cosigner_miss_streak        |-> <<>>,
     prev_height                 |-> None,
     height_stale_count          |-> 0,
     prev_sentry_connect_tries   |-> None,
     prev_invalid_signatures     |-> None,
     prev_beyond_block_errors    |-> None,
     prev_failed_sign_votes      |-> None,
     prev_goroutines             |-> None,
     goroutine_grow_streak       |-> 0]

\* FullReport(): the dataclass defaults; the attributes run() adds to the
\* instance (is_raft_leader and the ones after it) are None while unset
FullReport ==
    [last_prevote_height                |-> None,
     last_precommit_height              |-> None,
     missed_prevotes                    |-> None,
     missed_precommits                  |-> None,
     seconds_since_last_precommit       |-> None,
     insufficient_cosigner_errors       |-> None,
     cosigners                          |-> <<>>,
     sentries                           |-> <<>>,
     raft_election_timeouts             |-> None,
     seconds_since_last_ephemeral_share |-> None,
     checks                             |-> <<>>,
     metrics_ok                         |-> TRUE,
     is_raft_leader                     |-> None,
     sentry_connect_tries               |-> None,
     invalid_signature_errors           |-> None,
     beyond_block_errors                |-> None,
     failed_sign_votes                  |-> None,
     seconds_since_last_sign_finish     |-> None,
     process_open_fds                   |-> None,
     process_max_fds                    |-> None,
     process_memory_bytes               |-> None,
     go_goroutines                      |-> None]

\* The locals of one run(): self, report, checks, and the exception that ended it
Ctx(self) == [self |-> self, report |-> FullReport, checks |-> <<>>, raised |-> None]

\* checks.append(check)
Emit(c, check) == [c EXCEPT !.checks = Append(c.checks, check)]

\* a counter check that fires on any change of the counter
CounterCheck_AnyChange(prev, val, check_name, alert_key, severity, label) ==
    IF prev # None /\ val # Val(prev)
    THEN CheckResult(check_name, severity, <<label, val, "+", val - Val(prev)>>, alert_key)
    ELSE CheckResult(check_name, OK, <<label, val, "stable">>, alert_key)

\* a counter check whose severity grows with the size of the increase
CounterCheck_Escalating(prev, val, check_name, alert_key, severity, label) ==
    IF prev # None
    THEN LET delta == val - Val(prev) IN
         IF delta > 1
         THEN CheckResult(check_name, CRITICAL, <<label, val, "+", delta>>, alert_key)
         ELSE IF delta > 0
         THEN CheckResult(check_name, severity, <<label, val, "+", delta>>, alert_key)
         ELSE CheckResult(check_name, OK, <<label, val, "stable">>, alert_key)
    ELSE CheckResult(check_name, OK, <<label, val, "stable">>, alert_key)

\* the if/else that every counter-delta check makes on (previous, current)
CounterCheck(prev, val, check_name, alert_key, severity, label) ==
    IF prev # None
    THEN LET delta == val - Val(prev) IN
         IF delta > 0
         THEN CheckResult(check_name, severity, <<label, val, "+", delta>>, alert_key)
         ELSE CheckResult(check_name, OK, <<label, val, "stable">>, alert_key)
    ELSE CheckResult(check_name, OK, <<label, val, "stable">>, alert_key)

\* _check_error_counters._counter_delta, also the shape of the three inline copies
_counter_delta(c, m, metric_name, prev_attr, report_field, check_name, alert_key, severity, label) ==
    LET val == get_metric(m, metric_name) IN
    IF val = None THEN c
    ELSE [c EXCEPT
            !.report[report_field] = val,
            !.checks = Append(c.checks,
                          CounterCheck(c.self[prev_attr], Val(val),
                                       check_name, alert_key, severity, label)),
            !.self[prev_attr] = val]

\* lines 183-216
_check_raft(c, m) ==
    LET c1  == _counter_delta(c, m, "signer_total_raft_leader_election_timeout",
                   "prev_raft_election_timeouts", "raft_election_timeouts",
                   "raft_election_timeouts", "raft_election_timeouts",
                   WARNING, "Election timeouts")
        val == get_metric(m, "signer_seconds_since_last_local_ephemeral_share_time")
    IN  IF val # None
        THEN [c1 EXCEPT !.report.seconds_since_last_ephemeral_share = val]
        ELSE c1

\* a height-stale streak that counts only a decrease as non-progress
HeightStale_Strict(c) ==
    LET current_height == c.report.last_prevote_height IN
    IF current_height = None THEN c
    ELSE
      LET count == IF c.self.prev_height # None
                      /\ Val(current_height) < Val(c.self.prev_height)
                   THEN c.self.height_stale_count + 1
                   ELSE 0
          eph == c.report.seconds_since_last_ephemeral_share
          is_active_follower == eph # None /\ Val(eph) < block_time * 3
          check ==
            IF count >= th_height_stale_checks /\ ~is_active_follower
            THEN CheckResult("height_stale", CRITICAL,
                     <<"Height stale at", Val(current_height), count>>, "height_stale")
            ELSE CheckResult("height_stale", OK,
                     <<"Last prevote height", Val(current_height)>>, "height_stale")
      IN  [c EXCEPT !.self.height_stale_count = count,
                    !.self.prev_height = current_height,
                    !.checks = Append(c.checks, check)]

\* a streak that stands still while the node is an active follower
HeightStale_FrozenWhileSuppressed(c) ==
    LET current_height == c.report.last_prevote_height IN
    IF current_height = None THEN c
    ELSE
      LET eph == c.report.seconds_since_last_ephemeral_share
          is_active_follower == eph # None /\ Val(eph) < block_time * 3
          count == IF is_active_follower THEN c.self.height_stale_count
                   ELSE IF c.self.prev_height # None
                           /\ Val(current_height) <= Val(c.self.prev_height)
                        THEN c.self.height_stale_count + 1
                        ELSE 0
          check ==
            IF count >= th_height_stale_checks /\ ~is_active_follower
            THEN CheckResult("height_stale", CRITICAL,
                     <<"Height stale at", Val(current_height), count>>, "height_stale")
            ELSE CheckResult("height_stale", OK,
                     <<"Last prevote height", Val(current_height)>>, "height_stale")
      IN  [c EXCEPT !.self.height_stale_count = count,
                    !.self.prev_height = current_height,
                    !.checks = Append(c.checks, check)]

\* a streak that starts over when the prevote height is absent
HeightStale_ResetOnAbsence(c) ==
    LET current_height == c.report.last_prevote_height IN
    IF current_height = None
    THEN [c EXCEPT !.self.height_stale_count = 0, !.self.prev_height = None]
    ELSE
      LET count == IF c.self.prev_height # None
                      /\ Val(current_height) <= Val(c.self.prev_height)
                   THEN c.self.height_stale_count + 1
                   ELSE 0
          eph == c.report.seconds_since_last_ephemeral_share
          is_active_follower == eph # None /\ Val(eph) < block_time * 3
          check ==
            IF count >= th_height_stale_checks /\ ~is_active_follower
            THEN CheckResult("height_stale", CRITICAL,
                     <<"Height stale at", Val(current_height), count>>, "height_stale")
            ELSE CheckResult("height_stale", OK,
                     <<"Last prevote height", Val(current_height)>>, "height_stale")
      IN  [c EXCEPT !.self.height_stale_count = count,
                    !.self.prev_height = current_height,
                    !.checks = Append(c.checks, check)]

\* lines 79-106: the height-stale streak
HeightStale(c) ==
    LET current_height == c.report.last_prevote_height IN
    IF current_height = None THEN c
    ELSE
      LET count == IF c.self.prev_height # None
                      /\ Val(current_height) <= Val(c.self.prev_height)
                   THEN c.self.height_stale_count + 1
                   ELSE 0
          eph == c.report.seconds_since_last_ephemeral_share
          is_active_follower == eph # None /\ Val(eph) < block_time * 3
          check ==
            IF count >= th_height_stale_checks /\ ~is_active_follower
            THEN CheckResult("height_stale", CRITICAL,
                     <<"Height stale at", Val(current_height), count>>, "height_stale")
            ELSE CheckResult("height_stale", OK,
                     <<"Last prevote height", Val(current_height)>>, "height_stale")
      IN  [c EXCEPT !.self.height_stale_count = count,
                    !.self.prev_height = current_height,
                    !.checks = Append(c.checks, check)]

\* a gauge that fires as soon as it reaches its threshold
Threshold_AtLeast(c, m, metric_name, report_field, check_name, limit, severity, label) ==
    LET val == get_metric(m, metric_name) IN
    IF val = None THEN c
    ELSE [c EXCEPT
            !.report[report_field] = val,
            !.checks = Append(c.checks,
                CheckResult(check_name,
                            IF Val(val) >= limit THEN severity ELSE OK,
                            <<label, Val(val)>>, check_name))]

\* a gauge that also fires while the StateManager holds an alert for it
Threshold_Latched(c, m, metric_name, report_field, check_name, limit, severity, label) ==
    LET val == get_metric(m, metric_name) IN
    IF val = None THEN c
    ELSE [c EXCEPT
            !.report[report_field] = val,
            !.checks = Append(c.checks,
                CheckResult(check_name,
                            IF Val(val) > limit \/ DictHas(active_alerts, check_name)
                            THEN severity ELSE OK,
                            <<label, Val(val)>>, check_name))]

\* lines 108-144: a gauge against a static threshold, fired on strict excess
Threshold(c, m, metric_name, report_field, check_name, limit, severity, label) ==
    LET val == get_metric(m, metric_name) IN
    IF val = None THEN c
    ELSE [c EXCEPT
            !.report[report_field] = val,
            !.checks = Append(c.checks,
                CheckResult(check_name,
                            IF Val(val) > limit THEN severity ELSE OK,
                            <<label, Val(val)>>, check_name))]

\* lines 65-181
_check_signing(c, m) ==
    LET pv == get_metric(m, "signer_last_prevote_height")
        pc == get_metric(m, "signer_last_precommit_height")
        c1 == [c EXCEPT
                !.report.last_prevote_height =
                    IF pv # None THEN pv ELSE c.report.last_prevote_height,
                !.report.last_precommit_height =
                    IF pc # None THEN pc ELSE c.report.last_precommit_height]
        c2 == HeightStale(c1)
        c3 == Threshold(c2, m, "signer_missed_prevotes", "missed_prevotes",
                        "missed_prevotes", th_missed_prevotes, WARNING,
                        "Missed prevotes (consecutive)")
        c4 == Threshold(c3, m, "signer_missed_precommits", "missed_precommits",
                        "missed_precommits", th_missed_precommits, CRITICAL,
                        "Missed precommits (consecutive)")
        sp == get_metric(m, "signer_seconds_since_last_precommit")
        c5 == IF sp # None
              THEN [c4 EXCEPT !.report.seconds_since_last_precommit = sp,
                              !.report.is_raft_leader = Some(Val(sp) < block_time * 3)]
              ELSE c4
    IN  _counter_delta(c5, m, "signer_error_total_insufficient_cosigners",
            "prev_insufficient_cosigners", "insufficient_cosigner_errors",
            "insufficient_cosigners", "insufficient_cosigners",
            CRITICAL, "Insufficient cosigner errors")

\* lines 268-296
_check_sentry_connect(c, m) ==
    _counter_delta(c, m, "signer_sentry_connect_tries",
        "prev_sentry_connect_tries", "sentry_connect_tries",
        "sentry_connect_tries", "sentry_connect_tries",
        WARNING, "Sentry connect retries")

\* lines 326-381
_check_error_counters(c, m) ==
    LET c1 == _counter_delta(c, m, "signer_error_total_invalid_signatures",
                  "prev_invalid_signatures", "invalid_signature_errors",
                  "invalid_signatures", "invalid_signatures",
                  CRITICAL, "Invalid signature errors")
        c2 == _counter_delta(c1, m, "signer_total_beyond_block_errors",
                  "prev_beyond_block_errors", "beyond_block_errors",
                  "beyond_block_errors", "beyond_block_errors",
                  WARNING, "Beyond-block errors")
    IN  _counter_delta(c2, m, "signer_total_failed_sign_vote",
            "prev_failed_sign_votes", "failed_sign_votes",
            "failed_sign_votes", "failed_sign_votes",
            WARNING, "Failed sign votes")

\* a sign-finish test that does not look at the role
SignFinishStale_AnyRole(is_leader, val, threshold) == val > threshold

\* line 394: if is_leader and val > threshold
SignFinishStale(is_leader, val, threshold) == is_leader /\ val > threshold

\* lines 383-426; reading report.is_raft_leader before _check_signing has set it
\* is an AttributeError
_check_signing_freshness(c, m) ==
    LET val == get_metric(m, "signer_seconds_since_last_local_sign_finish_time") IN
    IF val # None /\ c.report.is_raft_leader = None
    THEN [c EXCEPT !.report.seconds_since_last_sign_finish = val,
                   !.raised = Some("AttributeError")]
    ELSE
      LET c1 == IF val = None THEN c
                ELSE LET threshold == block_time * th_sign_finish_stale_factor IN
                     [c EXCEPT
                        !.report.seconds_since_last_sign_finish = val,
                        !.checks = Append(c.checks,
                            IF SignFinishStale(Val(c.report.is_raft_leader),
                                               Val(val), threshold)
                            THEN CheckResult("sign_finish_stale", WARNING,
                                     <<"Last sign finish", Val(val), threshold>>,
                                     "sign_finish_stale")
                            ELSE CheckResult("sign_finish_stale", OK,
                                     <<"Last sign finish", Val(val)>>,
                                     "sign_finish_stale"))]
          eph == c1.report.seconds_since_last_ephemeral_share
          threshold == block_time * th_ephemeral_share_stale_factor
      IN  IF eph = None THEN c1
          ELSE Emit(c1,
                 IF Val(eph) > threshold
                 THEN CheckResult("ephemeral_share_stale", WARNING,
                          <<"Last ephemeral share", Val(eph), threshold>>,
                          "ephemeral_share_stale")
                 ELSE CheckResult("ephemeral_share_stale", OK,
                          <<"Last ephemeral share", Val(eph)>>,
                          "ephemeral_share_stale"))

\* lines 498-522: the goroutine growth streak
GoroutineGrowth(c, m) ==
    LET goroutines == get_metric(m, "go_goroutines") IN
    IF goroutines = None THEN c
    ELSE
      LET streak == IF c.self.prev_goroutines # None
                       /\ Val(goroutines) > Val(c.self.prev_goroutines)
                    THEN c.self.goroutine_grow_streak + 1
                    ELSE 0
      IN  [c EXCEPT
             !.report.go_goroutines = goroutines,
             !.self.goroutine_grow_streak = streak,
             !.self.prev_goroutines = goroutines,
             !.checks = Append(c.checks,
                 IF streak >= th_goroutine_growth_checks
                 THEN CheckResult("goroutine_growth", WARNING,
                          <<"Goroutines growing", Val(goroutines), streak>>,
                          "goroutine_growth")
                 ELSE CheckResult("goroutine_growth", OK,
                          <<"Goroutines", Val(goroutines)>>, "goroutine_growth"))]

\* lines 450-522
_check_process_health(c, m) ==
    LET open_fds == get_metric(m, "process_open_fds")
        max_fds  == get_metric(m, "process_max_fds")
        c1 == [c EXCEPT
                !.report.process_open_fds =
                    IF open_fds # None THEN open_fds ELSE c.report.process_open_fds,
                !.report.process_max_fds =
                    IF max_fds # None THEN max_fds ELSE c.report.process_max_fds]
        \* pct = open_fds / max_fds * 100 > threshold, without the division
        c2 == IF open_fds # None /\ max_fds # None /\ Val(max_fds) > 0
              THEN Emit(c1,
                     IF Val(open_fds) * 100 > th_fd_usage_percent * Val(max_fds)
                     THEN CheckResult("fd_usage", WARNING,
                              <<"FD usage", Val(open_fds), Val(max_fds),
                                th_fd_usage_percent>>, "fd_usage")
                     ELSE CheckResult("fd_usage", OK,
                              <<"FD usage", Val(open_fds), Val(max_fds)>>, "fd_usage"))
              ELSE c1
        mem == get_metric(m, "process_resident_memory_bytes")
        c3 == IF mem = None THEN c2
              ELSE [c2 EXCEPT
                      !.report.process_memory_bytes = mem,
                      !.checks = Append(c2.checks,
                          IF th_memory_bytes > 0 /\ Val(mem) > th_memory_bytes
                          THEN CheckResult("memory_usage", WARNING,
                                   <<"Resident memory", Val(mem), th_memory_bytes>>,
                                   "memory_usage")
                          ELSE CheckResult("memory_usage", OK,
                                   <<"Resident memory", Val(mem)>>, "memory_usage"))]
    IN  GoroutineGrowth(c3, m)

\* lines 219-266: CosignerStatus(...) is called without the tcp_ok argument
\* that models.CosignerStatus requires, a TypeError on the first cosigner;
\* the statements after it in the loop body are never reached
_check_cosigners(c, m, cfg) ==
    IF cfg.cosigners # <<>> THEN [c EXCEPT !.raised = Some("TypeError")] ELSE c

\* lines 298-324: SentryStatus(...) is called with a host argument that
\* models.SentryStatus does not take, a TypeError on the first sentry
_check_sentries(c, cfg) ==
    IF cfg.sentries # <<>> THEN [c EXCEPT !.raised = Some("TypeError")] ELSE c

\* max(heights) - min(heights)
Divergence(heights) ==
    LET hs == {heights[i] : i \in DOMAIN heights}
    IN  (CHOOSE x \in hs : \A y \in hs : x >= y) - (CHOOSE x \in hs : \A y \in hs : x <= y)

\* lines 428-448
_check_sentry_divergence(c) ==
    LET withHeight == SelectSeq(c.report.sentries, LAMBDA s : s.block_height # None)
        heights == [i \in DOMAIN withHeight |-> Val(withHeight[i].block_height)]
    IN  IF Len(heights) < 2 THEN c
        ELSE LET divergence == Divergence(heights) IN
             Emit(c,
               IF divergence > th_sentry_height_divergence
               THEN CheckResult("sentry_height_divergence", WARNING,
                        <<"Sentry height divergence", divergence,
                          th_sentry_height_divergence>>, "sentry_height_divergence")
               ELSE CheckResult("sentry_height_divergence", OK,
                        <<"Sentry height divergence", divergence>>,
                        "sentry_height_divergence"))

\* a statement after an exception is not executed
Then(c, next) == IF c.raised # None THEN c ELSE next

\* lines 30-63: Checker.run with fetch_metrics returning fetched (None or Some(dict))
RunResult(self, cfg, fetched) ==
    LET c0 == Ctx(self)
        c1 == IF fetched = None
              THEN Emit([c0 EXCEPT !.report.metrics_ok = FALSE],
                        CheckResult("metrics_endpoint", CRITICAL,
                                    <<"Metrics endpoint unreachable">>, "metrics_endpoint"))
              ELSE LET m  == Val(fetched)
                       a1 == _check_raft([c0 EXCEPT !.report.metrics_ok = TRUE], m)
                       a2 == _check_signing(a1, m)
                       a3 == _check_sentry_connect(a2, m)
                       a4 == _check_error_counters(a3, m)
                       a5 == _check_signing_freshness(a4, m)
                   IN  Then(a5, _check_process_health(a5, m))
        c2 == Then(c1, _check_cosigners(c1, fetched, cfg))
        c3 == Then(c2, _check_sentries(c2, cfg))
        c4 == Then(c3, _check_sentry_divergence(c3))
    IN  [c4 EXCEPT !.report.checks = IF c4.raised = None THEN c4.checks ELSE <<>>]

\* the key under which parse_prometheus_text files the missed-shares series
\* of the cosigner at tcp://cosigner-2:2222 (collector.py lines 20-40)
MissedSharesKey == "signer_missed_ephemeral_shares{peerid=\"tcp://cosigner-2:2222\"}"

\* the history of what run() has read: every metric name that was present in
\* a snapshot, the last th_height_stale_checks + 1 prevote heights, and the
\* last four readings of go_goroutines and of the cosigner's missed shares
LastN(q, n) == IF Len(q) <= n THEN q ELSE SubSeq(q, Len(q) - n + 1, Len(q))

Reading(q, m, name, n) == IF name \in DOMAIN m THEN LastN(Append(q, m[name]), n) ELSE q

Observe(obs, fetched) ==
    IF fetched = None THEN obs
    ELSE LET m == Val(fetched) IN
         [seen       |-> obs.seen \cup DOMAIN m,
          heights    |-> Reading(obs.heights, m, "signer_last_prevote_height",
                                 th_height_stale_checks + 1),
          goroutines |-> Reading(obs.goroutines, m, "go_goroutines", 4),
          shares     |-> Reading(obs.shares, m, MissedSharesKey, 4)]

\* checker.run(): the Checker's memory keeps every update made before an
\* exception; a report is only returned when none was raised
run(fetched) ==
    \E c \in {RunResult(checker, config, fetched)} :
        /\ metrics' = fetched
        /\ checker' = c.self
        /\ raised' = c.raised
        /\ report' = IF c.raised = None THEN c.report ELSE report
        /\ observed' = Observe(observed, fetched)

(***************************************************************************)
(* report.py : format_full_report, state.py : save_state                   *)
(***************************************************************************)
\* report.py lines 39-158, as the exception the call ends with (the text it
\* builds is not modelled).  Lines 79-91, 123 and 142-149 read attributes
\* that the FullReport dataclass does not declare and that only run() adds to
\* the instance, each when its metric is present: reading one that was not
\* added is an AttributeError.  Line 110 is reached with sentries only.
format_full_report(rep) ==
    IF \/ rep.invalid_signature_errors = None
       \/ rep.beyond_block_errors = None
       \/ rep.failed_sign_votes = None
       \/ rep.seconds_since_last_sign_finish = None
       \/ rep.sentries # <<>> /\ rep.sentry_connect_tries = None
       \/ rep.is_raft_leader = None
       \/ rep.process_open_fds = None
       \/ rep.process_max_fds = None
       \/ rep.process_memory_bytes = None
       \/ rep.go_goroutines = None
    THEN Some("AttributeError")
    ELSE None

\* state.py lines 53-59: the JSON object written for one AlertState, the
\* severity as the value of the enum member
DumpAlert(alert) ==
    [severity     |-> alert.severity,
     message      |-> alert.message,
     first_seen   |-> alert.first_seen,
     last_alerted |-> alert.last_alerted,
     count        |-> alert.count]

\* state.py lines 51-65: what save_state writes to a configured state file
Saved(alerts, hour) ==
    Some([active_alerts |-> [i \in DOMAIN alerts |->
                                [key |-> alerts[i].key, val |-> DumpAlert(alerts[i].val)]],
          last_scheduled_hour |-> hour])

\* models.py lines 7-10: Severity(value), the member with that value
Severity(value) == CHOOSE member \in {OK, WARNING, CRITICAL} : member = value

\* state.py lines 32-38: the AlertState built from one JSON object
LoadAlert(val) ==
    AlertState(Severity(val.severity), val.message, val.first_seen,
               val.last_alerted,
               IF "count" \in DOMAIN val THEN val.count ELSE 1)

\* a construction that ignores the state file
_load_state_Fresh(file) == [active_alerts |-> <<>>, last_scheduled_hour |-> None]

\* state.py lines 15-42: active_alerts and last_scheduled_hour of a
\* StateManager constructed on the state file
_load_state(file) ==
    IF file = None
    THEN [active_alerts |-> <<>>, last_scheduled_hour |-> None]
    ELSE [active_alerts |->
              [i \in DOMAIN Val(file).active_alerts |->
                  [key |-> Val(file).active_alerts[i].key,
                   val |-> LoadAlert(Val(file).active_alerts[i].val)]],
          last_scheduled_hour |-> Val(file).last_scheduled_hour]

(***************************************************************************)
(* notifiers/*.py, __main__.py : notify_all                                *)
(***************************************************************************)
\* what becomes of one request: the far end accepts it (HTTP 200, ok: true),
\* refuses it (another status, ok: false), or the transport raises (no
\* answer in time, no connection, a body that is not JSON)
Answers == {"accepted", "refused", "timeout"}

\* the notifier classes of the repository, and "custom": a BaseNotifier whose
\* send does not catch what its transport raises
Sinks == {"log", "slack", "telegram", "custom"}

\* send() of each notifier: "True", "False", or "raised" when an exception
\* leaves it.  logger.py lines 12-15; slack.py lines 14-37 and telegram.py
\* lines 16-41, whose try encloses the request and the reading of the reply
Send(sink, answer) ==
    CASE sink = "log" -> "True"
      [] sink = "slack" -> IF answer = "accepted" THEN "True" ELSE "False"
      [] sink = "telegram" -> IF answer = "accepted" THEN "True" ELSE "False"
      [] sink = "custom" ->
            IF answer = "accepted" THEN "True"
            ELSE IF answer = "refused" THEN "False"
            ELSE "raised"

\* a handler that lets the exception of a notifier through
Handled_ReturnsOnly(outcome) == outcome # "raised"

\* __main__.py lines 127-130: try: n.send(message) / except Exception: log
Handled(outcome) == TRUE

\* __main__.py lines 125-130: the for loop from the i-th notifier on
RECURSIVE notify_from(_, _, _, _)
notify_from(notifiers, answers, i, acc) ==
    IF i > Len(notifiers) THEN acc
    ELSE LET outcome == Send(notifiers[i], answers[i])
             sent == [acc EXCEPT !.attempts =
                         Append(@, [sink |-> notifiers[i], outcome |-> outcome])]
         IN  IF Handled(outcome)
             THEN notify_from(notifiers, answers, i + 1, sent)
             ELSE [sent EXCEPT !.raised = Some("Exception")]

\* notify_all(notifiers, message), the far ends answering as in answers
notify_all(notifiers, message, answers) ==
    delivery' = notify_from(notifiers, answers, 1,
                    [message |-> message, notifiers |-> notifiers,
                     attempts |-> <<>>, raised |-> None])

(***************************************************************************)
(* Configurations                                                          *)
(***************************************************************************)
\* a horcrux config without cosigners and chain nodes, and one with them
NoPeers == [cosigners |-> <<>>, sentries |-> <<>>]
WithPeers == [cosigners |-> <<[shard_id |-> 2, address |-> "tcp://cosigner-2:2222"]>>,
              sentries  |-> <<[address |-> "tcp://sentry-1:1234"]>>]
Configs == {NoPeers, WithPeers}

\* a horcrux config with three chain nodes and no cosigner
WithSentries == [cosigners |-> <<>>,
                 sentries  |-> <<[address |-> "tcp://sentry-1:1234"],
                                 [address |-> "tcp://sentry-2:1234"],
                                 [address |-> "tcp://sentry-3:1234"]>>]

(***************************************************************************)
(* Inputs                                                                  *)
(***************************************************************************)
KeyOrder == <<"k1", "k2">>
Messages == {<<"m1">>, <<"m2">>}

\* what a report can hold for one key: nothing, or one CheckResult
SyntheticChecks(k) ==
    {<<>>, <<CheckResult(k, OK, <<"m1">>, "")>>}
    \cup {<<CheckResult(k, s, m, "")>> : s \in {WARNING, CRITICAL}, m \in Messages}

\* reports with at most one check, of the first key
SingleKeyReports ==
    {[FullReport EXCEPT !.checks = c1] : c1 \in SyntheticChecks(KeyOrder[1])}

\* reports with at most one check per key, listed in KeyOrder
SyntheticReports ==
    {[FullReport EXCEPT !.checks = c1 \o c2] :
        c1 \in SyntheticChecks(KeyOrder[1]), c2 \in SyntheticChecks(KeyOrder[2])}

CounterNames ==
    {"signer_error_total_insufficient_cosigners",
     "signer_total_raft_leader_election_timeout",
     "signer_sentry_connect_tries",
     "signer_error_total_invalid_signatures",
     "signer_total_beyond_block_errors",
     "signer_total_failed_sign_vote"}

\* the source unreachable, or a snapshot in which no counter, one counter or
\* every counter is present
CounterSnapshots ==
    {None} \cup
    {Some([n \in P |-> v]) :
        P \in {{}} \cup {{n} : n \in CounterNames} \cup {CounterNames},
        v \in 0..MaxCounter}

\* readings of seconds-since-last-ephemeral-share around block_time * 3
EphValues == {block_time * 3 - 1, block_time * 3}

\* the source unreachable, or a snapshot with or without the prevote height
\* and with or without the ephemeral-share age
HeightSnapshots ==
    {None} \cup
    {Some(h @@ e) :
        h \in {<<>>} \cup {"signer_last_prevote_height" :> v : v \in 1..MaxHeight},
        e \in {<<>>} \cup {"signer_seconds_since_last_local_ephemeral_share_time" :> v :
                            v \in EphValues}}

\* the source unreachable, or signer_missed_precommits absent, at and above
\* its threshold
PrecommitSnapshots ==
    {None, Some(<<>>)} \cup
    {Some("signer_missed_precommits" :> v) :
        v \in {th_missed_precommits, th_missed_precommits + 1}}

\* the series the growth checks of a config read: go_goroutines, and the
\* missed shares of each configured cosigner
GrowthNames(cfg) ==
    {"go_goroutines"} \cup {MissedSharesKey : i \in DOMAIN cfg.cosigners}

\* the source unreachable, or a snapshot without or with these series, which
\* then hold the same reading
GrowthSnapshots(cfg) ==
    {None} \cup
    {Some([n \in P |-> v]) : P \in {{}, GrowthNames(cfg)}, v \in 1..MaxReading}

\* the series whose last reading the Checker remembers, one of each kind: the
\* prevote height, the goroutine gauge and an error counter
OutageNames ==
    {"signer_last_prevote_height", "go_goroutines",
     "signer_error_total_invalid_signatures"}

\* a lower and a higher reading
OutageReadings == {1, 2}

\* the source unreachable, or a snapshot that holds any of these series, all
\* at the same reading
OutageSnapshots ==
    {None} \cup
    {Some([n \in P |-> v]) : P \in SUBSET OutageNames, v \in OutageReadings}

\* what fetch_block_height answers for one sentry: None, or a block height
SentryHeights == {100, 101, 102, 107}
ProbeResults == {None} \cup {Some(h) : h \in SentryHeights}

\* a snapshot in which every series that format_full_report needs is present
\* and no check finds a problem
HealthySnapshot ==
    [n \in {"signer_seconds_since_last_precommit",
             "signer_error_total_invalid_signatures",
             "signer_total_beyond_block_errors",
             "signer_total_failed_sign_vote",
             "signer_seconds_since_last_local_sign_finish_time",
             "process_open_fds",
             "process_resident_memory_bytes",
             "go_goroutines"} |-> 1]
    @@ ("process_max_fds" :> 2)

\* the healthy snapshot with signer_missed_precommits above its threshold
TroubledSnapshot ==
    HealthySnapshot @@ ("signer_missed_precommits" :> (th_missed_precommits + 1))

\* what the daemon fetches: nothing, an empty snapshot or the healthy one
DaemonSnapshots == {None, Some(<<>>), Some(HealthySnapshot)}

\* what a restarted daemon fetches: also the troubled snapshot, and one
\* that holds signer_missed_precommits above its threshold and nothing else
RestartSnapshots ==
    DaemonSnapshots
    \cup {Some(TroubledSnapshot),
          Some("signer_missed_precommits" :> (th_missed_precommits + 1))}

\* a snapshot with every series that run() reads.  A quiet one holds each
\* gauge at its bound, the prevote height at n and the counters at rest; a
\* loud one holds each gauge just above its bound, the height stuck and the
\* counters and goroutines at n, on a leader; a follower one is a loud one
\* whose last precommit and last ephemeral share are at block_time * 3 and
\* just under it
Snapshot(n, kind) ==
    [name \in CounterNames |-> IF kind = "quiet" THEN 1 ELSE n]
    @@ ("go_goroutines" :> IF kind = "quiet" THEN 1 ELSE n)
    @@ ("signer_last_prevote_height" :> IF kind = "quiet" THEN n ELSE 1)
    @@ ("signer_last_precommit_height" :> IF kind = "quiet" THEN n ELSE 1)
    @@ ("signer_missed_prevotes" :>
            IF kind = "quiet" THEN th_missed_prevotes ELSE th_missed_prevotes + 1)
    @@ ("signer_missed_precommits" :>
            IF kind = "quiet" THEN th_missed_precommits ELSE th_missed_precommits + 1)
    @@ ("signer_seconds_since_last_precommit" :>
            IF kind = "follower" THEN block_time * 3 ELSE block_time * 3 - 1)
    @@ ("signer_seconds_since_last_local_sign_finish_time" :>
            IF kind = "quiet" THEN block_time * th_sign_finish_stale_factor
            ELSE block_time * th_sign_finish_stale_factor + 1)
    @@ ("signer_seconds_since_last_local_ephemeral_share_time" :>
            IF kind = "quiet" THEN block_time * th_ephemeral_share_stale_factor
            ELSE IF kind = "loud" THEN block_time * th_ephemeral_share_stale_factor + 1
            ELSE block_time * 3 - 1)
    @@ ("process_max_fds" :> 10)
    @@ ("process_open_fds" :> IF kind = "quiet" THEN 8 ELSE 9)
    @@ ("process_resident_memory_bytes" :>
            IF kind = "quiet" THEN th_memory_bytes ELSE th_memory_bytes + 1)

SnapshotKinds == {"quiet", "loud", "follower"}

\* a snapshot from which some series are absent
Without(m, names) == [x \in DOMAIN m \ names |-> m[x]]

\* the source unreachable, a full snapshot, or one that lacks the age of the
\* last precommit
SignalSnapshots ==
    {None} \cup
    {Some(Without(Snapshot(1, kind), absent)) :
        kind \in SnapshotKinds,
        absent \in {{}, {"signer_seconds_since_last_precommit"}}}

\* every series that run() reads
SeriesNames == DOMAIN Snapshot(1, "quiet")

\* the source unreachable, a full snapshot, or one that lacks one series
AbsenceSnapshots ==
    {None} \cup
    {Some(Without(Snapshot(1, kind), absent)) :
        kind \in {"quiet", "loud"},
        absent \in {{}} \cup {{x} : x \in SeriesNames}}

\* the source unreachable, a quiet snapshot, a follower's, or a loud one
LoudSnapshots ==
    {None, Some(Snapshot(1, "quiet")), Some(Snapshot(1, "follower"))}
    \cup {Some(Snapshot(n, "loud")) : n \in 1..MaxReading}

\* the lists of notifiers: every list of at most MaxSinks different sinks
SinkLists ==
    {q \in UNION {[1..n -> Sinks] : n \in 0..MaxSinks} :
        \A i, j \in DOMAIN q : i # j => q[i] # q[j]}

\* the messages of the loop: a problem alert, a digest
Notices == {"alert", "report"}

\* the source unreachable, or signer_missed_precommits at or above its
\* threshold, alone or with the election-timeout counter
IsolationSnapshots ==
    {None} \cup
    {Some(("signer_missed_precommits" :> v) @@ c) :
        v \in {th_missed_precommits, th_missed_precommits + 1},
        c \in {<<>>} \cup {"signer_total_raft_leader_election_timeout" :> n :
                            n \in 0..MaxCounter}}

\* the hour of day of a tick: a non-target hour and a target hour
TickHours == {8, 9}

\* the hours at which the scheduler is asked: target hours and others
ObservedHours == {8, 9, 10, 13}

\* last_scheduled_hour after construction: unset, or a saved target hour
LoadedHours == {None, Some(9), Some(13)}

(***************************************************************************)
(* Specifications                                                          *)
(***************************************************************************)
\* the longest check_interval explored
LongestInterval == CHOOSE d \in Intervals : \A e \in Intervals : e <= d

InitLoaded(cfgs, hours) ==
    /\ config \in cfgs
    /\ checker = NewChecker
    /\ metrics = None
    /\ raised = None
    /\ report = FullReport
    /\ active_alerts = <<>>
    /\ now = 0
    /\ result = EmptyResult
    /\ prior_alerts = <<>>
    /\ observed = [seen |-> {}, heights |-> <<>>, goroutines |-> <<>>, shares |-> <<>>]
    /\ presence = [k \in {} |-> 0]
    /\ entered = [k \in {} |-> 0]
    /\ probed = <<>>
    /\ last_scheduled_hour \in hours
    /\ due = FALSE
    /\ sched_log = [loaded |-> last_scheduled_hour, calls |-> <<>>]
    /\ pos = "startup"
    /\ running = TRUE
    /\ once = FALSE
    /\ state_file = None
    /\ run_log = {}
    /\ delivery = [message |-> "", notifiers |-> <<>>, attempts |-> <<>>,
                   raised |-> None]
    /\ outbox = <<>>

\* a start without a state file: _load_state returns at line 27
InitWith(cfgs) == InitLoaded(cfgs, {None})

Init == InitWith({NoPeers})

InitChecker == InitWith(Configs)

\* a start that may find a state file: _load_state line 39
InitSchedule == InitLoaded({NoPeers}, LoadedHours)

\* one call of process_report on an arbitrary report
ProcessTick ==
    \E rep \in SyntheticReports, dt \in Intervals :
        /\ now + dt <= MaxTime
        /\ report' = rep
        /\ process_report(rep, now + dt)
        /\ UNCHANGED <<config, checkerVars, probed, schedVars, mainVars, logVars>>

\* one call of process_report on a report of one key
ProcessOne ==
    \E rep \in SingleKeyReports, dt \in Intervals :
        /\ now + dt <= MaxTime
        /\ report' = rep
        /\ process_report(rep, now + dt)
        /\ UNCHANGED <<config, checkerVars, probed, schedVars, mainVars, logVars>>

\* one call of is_scheduled_report_due at some hour of the day, outside any
\* tick
ScheduleAsk ==
    \E hour \in ObservedHours :
        /\ Len(sched_log.calls) < MaxAsked
        /\ is_scheduled_report_due(hour)
        /\ sched_log' = [sched_log EXCEPT
                            !.calls = Append(@, [hour |-> hour, due |-> due'])]
        /\ UNCHANGED <<config, checkerVars, report, stateVars, probed, mainVars, logVars>>

\* one call of run() on the error counters
RunCounters ==
    \E fetched \in CounterSnapshots :
        /\ run(fetched)
        /\ UNCHANGED <<config, stateVars, probed, schedVars, mainVars, logVars>>

\* one call of run() on the prevote height
RunHeight ==
    \E fetched \in HeightSnapshots :
        /\ checker.height_stale_count < MaxStaleCount
        /\ run(fetched)
        /\ UNCHANGED <<config, stateVars, probed, schedVars, mainVars, logVars>>

\* one call of run() on the series of the growth checks
RunGrowth ==
    \E fetched \in GrowthSnapshots(config) :
        /\ run(fetched)
        /\ UNCHANGED <<config, stateVars, probed, schedVars, mainVars, logVars>>

\* one call of run() on the remembered series
RunOutage ==
    \E fetched \in OutageSnapshots :
        /\ checker.height_stale_count < MaxStaleCount
        /\ run(fetched)
        /\ UNCHANGED <<config, stateVars, probed, schedVars, mainVars, logVars>>

\* one call of run() with the metrics source down or empty, and with the
\* answer that each configured sentry's RPC has for fetch_block_height
RunSentries ==
    \E fetched \in {None, Some(<<>>)},
       answers \in [DOMAIN config.sentries -> ProbeResults] :
        /\ run(fetched)
        /\ probed' = answers
        /\ UNCHANGED <<config, stateVars, schedVars, mainVars, logVars>>

\* one call of is_scheduled_report_due at some hour of the day
ScheduleTick ==
    \E hour \in ObservedHours :
        /\ Len(sched_log.calls) < MaxCalls
        /\ is_scheduled_report_due(hour)
        /\ sched_log' = [sched_log EXCEPT
                            !.calls = Append(@, [hour |-> hour, due |-> due'])]
        /\ UNCHANGED <<config, checkerVars, report, stateVars, probed, mainVars, logVars>>

\* __main__.py lines 94-96 and 119-120: checker.run() then
\* state.process_report(report); an exception of run() is caught and ends the
\* tick before process_report
Tick(fetched, dt) ==
    /\ now + dt <= MaxTime
    /\ run(fetched)
    /\ IF raised' = None
       THEN process_report(report', now + dt)
       ELSE /\ now' = now + dt
            /\ UNCHANGED <<active_alerts, result, prior_alerts, presence, entered>>
    /\ UNCHANGED config

\* one message given to notify_all: its kind and the alert keys it lists
Message(kind, keys) == [kind |-> kind, keys |-> keys]

\* __main__.py lines 98-115: what a loop tick gives to notify_all, in order:
\* the new alerts, the re-alerts and the recoveries when there are any, then
\* the digest when it is due and format_full_report returns
TickOutbox(res, isDue, rep) ==
    (IF res.new_alerts # <<>>
     THEN <<Message("problem", [i \in DOMAIN res.new_alerts |-> res.new_alerts[i].alert_key])>>
     ELSE <<>>)
    \o (IF res.re_alerts # <<>>
        THEN <<Message("ongoing", [i \in DOMAIN res.re_alerts |-> res.re_alerts[i].alert_key])>>
        ELSE <<>>)
    \o (IF res.recoveries # <<>>
        THEN <<Message("recovery", [i \in DOMAIN res.recoveries |-> res.recoveries[i].key])>>
        ELSE <<>>)
    \o (IF isDue /\ format_full_report(rep) = None
        THEN <<Message("digest", <<>>)>>
        ELSE <<>>)

\* a startup that also announces what its process_report returned
StartupOutbox_Announcing(res) ==
    <<Message("startup", <<>>)>>
    \o TickOutbox(res, FALSE, FullReport)

\* lines 80-82: the startup evaluation gives the startup report to notify_all
\* and drops what process_report returns
StartupOutbox(res) == <<Message("startup", <<>>)>>

\* a tick that saves the state whether or not format_full_report raised
Deliver_Flushing(hour) ==
    /\ is_scheduled_report_due(hour)
    /\ outbox' = TickOutbox(result', due', report')
    /\ state_file' = Saved(active_alerts', last_scheduled_hour')

\* __main__.py lines 98-117: the notifications (notify_all catches what a
\* notifier raises, lines 125-130), the digest gate, and save_state unless
\* format_full_report raised on the way to it
Deliver(hour) ==
    /\ is_scheduled_report_due(hour)
    /\ outbox' = TickOutbox(result', due', report')
    /\ state_file' = IF due' /\ format_full_report(report') # None
                     THEN state_file
                     ELSE Saved(active_alerts', last_scheduled_hour')

\* __main__.py lines 94-120: the body of the daemon loop
LoopBody(fetched, dt, hour) ==
    /\ Tick(fetched, dt)
    /\ IF raised' = None
       THEN Deliver(hour)
       ELSE /\ outbox' = <<>>
            /\ UNCHANGED <<last_scheduled_hour, due, state_file>>
    /\ UNCHANGED <<probed, sched_log, delivery>>

TickPrecommits ==
    \E fetched \in PrecommitSnapshots, dt \in Intervals, hour \in TickHours :
        /\ LoopBody(fetched, dt, hour)
        /\ UNCHANGED <<pos, running, once, run_log>>

\* one call of run() on a snapshot of every series
RunSignals ==
    \E fetched \in SignalSnapshots :
        /\ checker.height_stale_count < MaxStaleCount
        /\ run(fetched)
        /\ UNCHANGED <<config, stateVars, probed, schedVars, mainVars, logVars>>

\* one call of run() on a snapshot that may lack a series
RunAbsence ==
    \E fetched \in AbsenceSnapshots :
        /\ checker.height_stale_count < MaxStaleCount
        /\ run(fetched)
        /\ UNCHANGED <<config, stateVars, probed, schedVars, mainVars, logVars>>

\* one pass of the loop body, recorded in run_log: what the Checker and the
\* StateManager held when run() was called, what was fetched, and what run()
\* produced
TickLogged ==
    \E fetched \in IsolationSnapshots, dt \in Intervals, hour \in TickHours :
        /\ Cardinality(run_log) < MaxRuns
        /\ LoopBody(fetched, dt, hour)
        /\ run_log' = run_log \cup
              {[self    |-> checker,
                fetched |-> fetched,
                state   |-> [active_alerts |-> active_alerts,
                             last_scheduled_hour |-> last_scheduled_hour],
                raised  |-> raised',
                checks  |-> IF raised' = None THEN report'.checks ELSE <<>>,
                after   |-> checker']}
        /\ UNCHANGED <<pos, running, once>>

\* one call of notify_all
Notify ==
    \E notifiers \in SinkLists, message \in Notices :
        \E answers \in [DOMAIN notifiers -> Answers] :
            /\ notify_all(notifiers, message, answers)
            /\ UNCHANGED <<config, checkerVars, report, stateVars, probed,
                           schedVars, mainVars, run_log, outbox>>

\* one pass of the loop body on a snapshot of every series
TickSignals ==
    \E fetched \in LoudSnapshots, dt \in Intervals, hour \in TickHours :
        /\ LoopBody(fetched, dt, hour)
        /\ UNCHANGED <<pos, running, once, run_log>>

\* __main__.py lines 77-86: the startup evaluation, outside any try
StartupOn(snapshots) ==
    \E fetched \in snapshots, flag \in BOOLEAN :
        /\ pos = "startup"
        /\ once' = flag
        /\ run(fetched)
        /\ IF raised' # None \/ format_full_report(report') # None
           THEN /\ pos' = "crashed"
                /\ outbox' = <<>>
                /\ UNCHANGED <<stateVars, state_file>>
           ELSE /\ process_report(report', now)
                /\ outbox' = StartupOutbox(result')
                /\ state_file' = Saved(active_alerts', last_scheduled_hour)
                /\ pos' = IF flag THEN "exited" ELSE "while"
        /\ UNCHANGED <<config, probed, schedVars, running, run_log, delivery>>

Startup == StartupOn(DaemonSnapshots)

\* line 89: while running
LoopTest ==
    /\ pos = "while"
    /\ pos' = IF running THEN "sleep" ELSE "exited"
    /\ UNCHANGED <<config, checkerVars, report, stateVars, probed, schedVars,
                   running, once, state_file, logVars>>

\* lines 90-92: time.sleep(check_interval), then break if not running
Sleep ==
    /\ pos = "sleep"
    /\ pos' = IF running THEN "body" ELSE "exited"
    /\ UNCHANGED <<config, checkerVars, report, stateVars, probed, schedVars,
                   running, once, state_file, logVars>>

\* lines 90-92 while the clock of the model has room for the tick that may
\* follow; once running is cleared no tick follows and the sleep ends the loop
SleepInTime ==
    /\ pos = "sleep"
    /\ running => now + LongestInterval <= MaxTime
    /\ pos' = IF running THEN "body" ELSE "exited"
    /\ UNCHANGED <<config, checkerVars, report, stateVars, probed, schedVars,
                   running, once, state_file, logVars>>

\* lines 94-120, then back to line 89
BodyOn(snapshots) ==
    \E fetched \in snapshots, dt \in Intervals, hour \in TickHours :
        /\ pos = "body"
        /\ LoopBody(fetched, dt, hour)
        /\ pos' = "while"
        /\ UNCHANGED <<running, once, run_log>>

Body == BodyOn(DaemonSnapshots)

\* the daemon on what a restarted daemon fetches
StartupAgain == StartupOn(RestartSnapshots)

BodyAgain == BodyOn(RestartSnapshots)

\* the process is started again some time after it ended: main() lines 26-63
\* build a new Checker and a StateManager on the same state file
Restart ==
    \E dt \in Intervals, loaded \in {_load_state(state_file)} :
        /\ pos \in {"exited", "crashed"}
        /\ now + dt <= MaxTime
        /\ now' = now + dt
        /\ pos' = "startup"
        /\ running' = TRUE
        /\ checker' = NewChecker
        /\ metrics' = None
        /\ raised' = None
        /\ report' = FullReport
        /\ observed' = [seen |-> {}, heights |-> <<>>, goroutines |-> <<>>,
                        shares |-> <<>>]
        /\ active_alerts' = loaded.active_alerts
        /\ last_scheduled_hour' = loaded.last_scheduled_hour
        /\ result' = EmptyResult
        /\ due' = FALSE
        /\ UNCHANGED <<config, prior_alerts, presence, entered, probed, sched_log,
                       once, state_file, logVars>>

\* lines 66-69: handle_signal, run between any two steps of main()
Signal ==
    /\ pos \notin {"exited", "crashed"}
    /\ running' = FALSE
    /\ UNCHANGED <<config, checkerVars, report, stateVars, probed, schedVars,
                   pos, once, state_file, logVars>>

Next == ProcessTick

Spec == Init /\ [][Next]_vars

NextCounters == RunCounters

SpecCounters == InitChecker /\ [][NextCounters]_vars

NextHeight == RunHeight

SpecHeight == InitChecker /\ [][NextHeight]_vars

NextE2E == TickPrecommits

SpecE2E == InitChecker /\ [][NextE2E]_vars

NextSchedule == ScheduleTick

SpecSchedule == InitSchedule /\ [][NextSchedule]_vars

NextSentries == RunSentries

InitSentries == InitWith(Configs \cup {WithSentries})

SpecSentries == InitSentries /\ [][NextSentries]_vars

NextDaemon == Startup \/ LoopTest \/ Sleep \/ Body \/ Signal

SpecDaemon == InitChecker /\ [][NextDaemon]_vars

NextSignals == RunSignals

SpecSignals == InitChecker /\ [][NextSignals]_vars

NextAbsence == RunAbsence

SpecAbsence == Init /\ [][NextAbsence]_vars

NextNotify == Notify

SpecNotify == Init /\ [][NextNotify]_vars

NextRestart == StartupAgain \/ LoopTest \/ Sleep \/ BodyAgain \/ Signal \/ Restart

SpecRestart == Init /\ [][NextRestart]_vars

NextIsolation == TickLogged

SpecIsolation == InitSchedule /\ [][NextIsolation]_vars

NextSeverity == TickSignals

SpecSeverity == InitChecker /\ [][NextSeverity]_vars

NextOutage == RunOutage

SpecOutage == InitChecker /\ [][NextOutage]_vars

NextFrame == ProcessOne \/ ScheduleAsk

SpecFrame == InitSchedule /\ [][NextFrame]_vars

NextShutdown == Startup \/ LoopTest \/ SleepInTime \/ Body \/ Signal

\* main() is one sequential thread: whatever statement it has reached, it
\* goes on to execute it, and the evaluation and the sleep it is in return;
\* nothing obliges a signal to arrive
SpecShutdown ==
    /\ InitChecker
    /\ [][NextShutdown]_vars
    /\ WF_vars(Startup)
    /\ WF_vars(LoopTest)
    /\ WF_vars(SleepInTime)
    /\ WF_vars(Body)

NextGrowth == RunGrowth

SpecGrowth == InitChecker /\ [][NextGrowth]_vars

(***************************************************************************)
(* Vocabulary of the properties                                            *)
(***************************************************************************)
AlertKeys == {KeyOrder[i] : i \in DOMAIN KeyOrder}

\* the alert keys of a list of CheckResults, and of a list of recoveries
CheckKeys(cs) == {cs[i].alert_key : i \in DOMAIN cs}
RecoveryKeys(rs) == {rs[i].key : i \in DOMAIN rs}

\* the problem set of a report: every WARNING or CRITICAL check, by alert_key
Problems(rep) == CurrentProblems(rep.checks, <<>>)
ProblemKeys(rep) == DictKeys(Problems(rep))

(***************************************************************************)
(* Alert lifecycle                                                         *)
(***************************************************************************)
\* C1: a WARNING alert whose problem is absent on a tick and back on the next
\* tick, less than alert_cooldown later, is returned in neither recoveries nor
\* new_alerts on either tick, and keeps its first_seen and its running count.
C1_WarningGapAbsorbed ==
    [][\A k \in AlertKeys :
         ( /\ DictHas(prior_alerts, k)
           /\ DictGet(prior_alerts, k).severity = WARNING
           /\ k \notin ProblemKeys(report)
           /\ k \in ProblemKeys(report')
           /\ now' - now < alert_cooldown )
         => /\ k \notin RecoveryKeys(result.recoveries)
            /\ k \notin CheckKeys(result'.new_alerts)
            /\ k \notin RecoveryKeys(result'.recoveries)
            /\ DictHas(active_alerts', k)
            /\ DictGet(active_alerts', k).first_seen = DictGet(prior_alerts, k).first_seen
            /\ DictGet(active_alerts', k).count = DictGet(prior_alerts, k).count + 1
      ]_vars

\* C2: no recovery is ever returned for a WARNING alert; on the tick its
\* problem first goes absent the AlertState is still held.
C2_NoWarningRecovery ==
    \A k \in DictKeys(prior_alerts) :
        ( /\ DictGet(prior_alerts, k).severity = WARNING
          /\ k \notin ProblemKeys(report) )
        => /\ k \notin RecoveryKeys(result.recoveries)
           /\ DictHas(active_alerts, k)

\* C3: re_alerts never holds a CheckResult of WARNING severity.
C3_NoWarningReAlert ==
    \A i \in DOMAIN result.re_alerts : result.re_alerts[i].severity # WARNING

\* C4: a check is re-alerted only when its key was active before the tick and
\* at least alert_cooldown has passed since last_alerted; last_alerted then
\* becomes now, and a key re-alerted on two ticks in a row had them at least
\* alert_cooldown apart.
C4_ReAlertOnlyAfterCooldown ==
    [][\A k \in CheckKeys(result'.re_alerts) :
         /\ DictHas(active_alerts, k)
         /\ now' - DictGet(active_alerts, k).last_alerted >= alert_cooldown
         /\ DictGet(active_alerts', k).last_alerted = now'
         /\ (k \in CheckKeys(result.re_alerts) => now' - now >= alert_cooldown)
      ]_vars

\* a key has been re-alerted now and, given how long it has been active, on
\* an earlier tick too
C4_Witness ==
    \E k \in CheckKeys(result.re_alerts) :
        /\ DictGet(active_alerts, k).last_alerted = now
        /\ now - DictGet(active_alerts, k).first_seen >= 2 * alert_cooldown

\* C5: on the first tick without the problem of an active CRITICAL alert, its
\* AlertState is removed and exactly one recovery is returned for it, carrying
\* the message of its last CheckResult and the duration now - first_seen; an
\* AlertState of CRITICAL severity never outlives its problem.
C5_CriticalRecoversAtOnce ==
    [][ /\ \A k \in DictKeys(active_alerts) :
             ( /\ DictGet(active_alerts, k).severity = CRITICAL
               /\ k \notin ProblemKeys(report') )
             => /\ ~DictHas(active_alerts', k)
                /\ Cardinality({i \in DOMAIN result'.recoveries :
                                    result'.recoveries[i].key = k}) = 1
                /\ \A i \in DOMAIN result'.recoveries :
                      result'.recoveries[i].key = k
                      => /\ result'.recoveries[i].message
                              = DictGet(Problems(report), k).message
                         /\ result'.recoveries[i].duration
                              = now' - DictGet(active_alerts, k).first_seen
        /\ \A k \in DictKeys(active_alerts') :
             DictGet(active_alerts', k).severity = CRITICAL
             => k \in ProblemKeys(report')
      ]_vars

\* a CRITICAL alert that was seen on two ticks with two messages has recovered
C5_Witness ==
    \E i \in DOMAIN result.recoveries :
        LET k == result.recoveries[i].key IN
        /\ DictGet(prior_alerts, k).severity = CRITICAL
        /\ DictGet(prior_alerts, k).count >= 2
        /\ result.recoveries[i].message = <<"m2">>
        /\ result.recoveries[i].duration > 0

\* C7: a key is in new_alerts exactly when it is in the tick's problem set and
\* had no AlertState before the tick; the entry is that problem's CheckResult
\* and its AlertState starts with first_seen = last_alerted = now, count = 1.
C7_NewAlertIffAbsentBefore ==
    [][ /\ \A k \in AlertKeys :
             k \in CheckKeys(result'.new_alerts)
             <=> (k \in ProblemKeys(report') /\ ~DictHas(active_alerts, k))
        /\ \A i \in DOMAIN result'.new_alerts :
             LET check == result'.new_alerts[i]
                 alert == DictGet(active_alerts', check.alert_key)
             IN  /\ check = DictGet(Problems(report'), check.alert_key)
                 /\ alert.first_seen = now'
                 /\ alert.last_alerted = now'
                 /\ alert.count = 1
      ]_vars

\* a new alert was raised while another key was already active
C7_Witness ==
    /\ Len(result.new_alerts) = 1
    /\ Len(active_alerts) = 2
    /\ \E k \in DictKeys(active_alerts) : DictGet(active_alerts, k).count > 1

(***************************************************************************)
(* Checker                                                                 *)
(***************************************************************************)
\* the checks of a report that carry a given alert_key
ChecksOf(rep, k) == SelectSeq(rep.checks, LAMBDA ch : ch.alert_key = k)

\* a step on which run() read the snapshot m and returned a report
Returned(m) == metrics' = Some(m) /\ raised' = None

\* each counter-delta check: its metric, its prev_* attribute and its alert_key
CounterChecks ==
    {<<"signer_error_total_insufficient_cosigners", "prev_insufficient_cosigners",
       "insufficient_cosigners">>,
     <<"signer_total_raft_leader_election_timeout", "prev_raft_election_timeouts",
       "raft_election_timeouts">>,
     <<"signer_sentry_connect_tries", "prev_sentry_connect_tries",
       "sentry_connect_tries">>,
     <<"signer_error_total_invalid_signatures", "prev_invalid_signatures",
       "invalid_signatures">>,
     <<"signer_total_beyond_block_errors", "prev_beyond_block_errors",
       "beyond_block_errors">>,
     <<"signer_total_failed_sign_vote", "prev_failed_sign_votes",
       "failed_sign_votes">>}

\* C6: with signer_missed_precommits = 4 against a threshold of 3, a tick's
\* report holds one CRITICAL check keyed missed_precommits; process_report
\* returns it in new_alerts when the key is not yet active, in neither list
\* while less than alert_cooldown has passed since last_alerted, and in
\* re_alerts (not new_alerts) once alert_cooldown has passed.
C6_MissedPrecommitsEndToEnd ==
    [][Returned("signer_missed_precommits" :> (th_missed_precommits + 1)) =>
         LET k     == "missed_precommits"
             mine  == ChecksOf(report', k)
             isNew == k \in CheckKeys(result'.new_alerts)
             isRe  == k \in CheckKeys(result'.re_alerts)
         IN  /\ Len(mine) = 1
             /\ mine[1].status = CRITICAL
             /\ ~DictHas(active_alerts, k) => (isNew /\ ~isRe)
             /\ DictHas(active_alerts, k) =>
                  IF now' - DictGet(active_alerts, k).last_alerted < alert_cooldown
                  THEN ~isNew /\ ~isRe
                  ELSE isRe /\ ~isNew
      ]_vars

\* the third of three ticks with 4 missed precommits, alert_cooldown after the
\* first: the alert is re-alerted
C6_Witness ==
    /\ metrics = Some("signer_missed_precommits" :> (th_missed_precommits + 1))
    /\ CheckKeys(result.re_alerts) = {"missed_precommits"}
    /\ result.new_alerts = <<>>
    /\ DictGet(active_alerts, "missed_precommits").count = 3
    /\ DictGet(active_alerts, "missed_precommits").first_seen = now - alert_cooldown

\* C8: on the first tick on which run() finds a counter metric in the
\* snapshot, the report holds one check for it and that check is OK, whatever
\* the value and whatever happened on earlier ticks.
C8_FirstObservationIsOK ==
    [][\A cc \in CounterChecks :
         ( /\ metrics' # None
           /\ raised' = None
           /\ cc[1] \in DOMAIN Val(metrics')
           /\ cc[1] \notin observed.seen )
         => /\ Len(ChecksOf(report', cc[3])) = 1
            /\ ChecksOf(report', cc[3])[1].status = OK
      ]_vars

\* a counter is first seen, at a non-zero value, on a tick that follows ticks
\* on which only another counter was present
C8_Witness ==
    /\ raised = None
    /\ metrics = Some("signer_error_total_invalid_signatures" :> MaxCounter)
    /\ observed.seen = {"signer_total_beyond_block_errors",
                        "signer_error_total_invalid_signatures"}
    /\ checker.prev_beyond_block_errors = Some(0)
    /\ ChecksOf(report, "invalid_signatures")[1].status = OK

\* C9: with a remembered previous value, a counter-delta check is non-OK
\* exactly when current - previous > 0; and on every tick on which the metric
\* is present the remembered value becomes the current one.
C9_CounterDelta ==
    [][\A cc \in CounterChecks :
         (metrics' # None /\ cc[1] \in DOMAIN Val(metrics'))
         => LET current == Val(metrics')[cc[1]] IN
            /\ checker'[cc[2]] = Some(current)
            /\ (raised' = None /\ checker[cc[2]] # None)
               => /\ Len(ChecksOf(report', cc[3])) = 1
                  /\ ChecksOf(report', cc[3])[1].status # OK
                       <=> current - Val(checker[cc[2]]) > 0
      ]_vars

\* a counter went down and its check is OK, and the lower value is remembered
C9_Witness ==
    /\ raised = None
    /\ metrics = Some("signer_sentry_connect_tries" :> 0)
    /\ checker.prev_sentry_connect_tries = Some(0)
    /\ checker.prev_failed_sign_votes = Some(MaxCounter)
    /\ ChecksOf(report, "sentry_connect_tries")[1].message
          = <<"Sentry connect retries", 0, "stable">>

\* the last n readings of the prevote height each failed to exceed the one before
NoProgress(hs, n) ==
    /\ Len(hs) >= n + 1
    /\ \A i \in (Len(hs) - n + 1)..Len(hs) : hs[i] <= hs[i - 1]

\* the same-tick suppressing condition: ephemeral shares younger than 3 blocks
ActiveFollower(m) ==
    /\ "signer_seconds_since_last_local_ephemeral_share_time" \in DOMAIN m
    /\ m["signer_seconds_since_last_local_ephemeral_share_time"] < block_time * 3

\* C10: height_stale is CRITICAL exactly when the prevote height failed to
\* strictly increase on each of the last th_height_stale_checks readings and
\* the node is not an active follower on this tick; on a tick where the height
\* strictly increases the streak is 0 and the check is OK.
C10_HeightStale ==
    [][(metrics' # None /\ "signer_last_prevote_height" \in DOMAIN Val(metrics'))
       => LET hs == observed'.heights IN
          /\ (Len(hs) >= 2 /\ hs[Len(hs)] > hs[Len(hs) - 1])
             => checker'.height_stale_count = 0
          /\ raised' = None
             => /\ Len(ChecksOf(report', "height_stale")) = 1
                /\ ChecksOf(report', "height_stale")[1].status = CRITICAL
                     <=> ( /\ NoProgress(hs, th_height_stale_checks)
                           /\ ~ActiveFollower(Val(metrics')) )
                /\ ChecksOf(report', "height_stale")[1].status \in {OK, CRITICAL}
                /\ (Len(hs) >= 2 /\ hs[Len(hs)] > hs[Len(hs) - 1])
                   => ChecksOf(report', "height_stale")[1].status = OK
      ]_vars

\* the height stood still for exactly th_height_stale_checks readings after
\* an increase, and the check is CRITICAL
C10_Witness ==
    /\ raised = None
    /\ metrics # None
    /\ "signer_last_prevote_height" \in DOMAIN Val(metrics)
    /\ checker.height_stale_count = th_height_stale_checks
    /\ ChecksOf(report, "height_stale")[1].status = CRITICAL

(***************************************************************************)
(* Growth with debounce                                                    *)
(***************************************************************************)
\* the last n + 1 readings in hs are n strict increases in a row
Growing(hs, n) ==
    /\ Len(hs) >= n + 1
    /\ \A i \in (Len(hs) - n + 1)..Len(hs) : hs[i] > hs[i - 1]

\* a step on which run() found the series name in its snapshot
Reads(name) == metrics' # None /\ name \in DOMAIN Val(metrics')

\* the report that the last run() returned holds a WARNING check with key k
Warns(rep, k) == \E i \in DOMAIN ChecksOf(rep, k) : ChecksOf(rep, k)[i].status = WARNING

\* On every run() that returns a report and reads go_goroutines, the report
\* holds a goroutine_growth check, which is WARNING exactly when the last
\* three readings were each strictly above the one before.
GoroutineDebounce ==
    [][(Reads("go_goroutines") /\ raised' = None)
        => /\ Len(ChecksOf(report', "goroutine_growth")) = 1
           /\ Warns(report', "goroutine_growth")
                <=> Growing(observed'.goroutines, th_goroutine_growth_checks)]_vars

GoroutineDebounce_Witness ==
    /\ raised = None
    /\ Growing(observed.goroutines, th_goroutine_growth_checks)
    /\ Warns(report, "goroutine_growth")

\* C11: the growth-with-debounce checks report WARNING on exactly the ticks
\* whose reading ends three strict increases in a row: goroutine_growth on
\* go_goroutines, and cosigner_2_shares on the missed shares of the
\* configured cosigner, whose third increase in a row yields a report with
\* that WARNING.
C11_GrowthDebounce ==
    [][/\ (Reads("go_goroutines") /\ raised' = None)
           => (Warns(report', "goroutine_growth")
                 <=> Growing(observed'.goroutines, th_goroutine_growth_checks))
       /\ (config.cosigners # <<>> /\ Reads(MissedSharesKey))
           => /\ Growing(observed'.shares, 3)
                  => raised' = None /\ Warns(report', "cosigner_2_shares")
              /\ (raised' = None /\ Warns(report', "cosigner_2_shares"))
                  => Growing(observed'.shares, 3)]_vars

(***************************************************************************)
(* Report scheduler                                                        *)
(***************************************************************************)
\* the hours, and the answers, of the recorded calls
CallHours == [i \in DOMAIN sched_log.calls |-> sched_log.calls[i].hour]
CallDues == [i \in DOMAIN sched_log.calls |-> sched_log.calls[i].due]

\* q begins with p
StartsWith(q, p) == Len(q) >= Len(p) /\ SubSeq(q, 1, Len(p)) = p

\* C12: is_scheduled_report_due never answers true in a non-target hour and
\* answers true at most once within a run of consecutive calls in the same
\* hour; from a start without a remembered hour, calls at hours 8, 9, 9, 10
\* answer false, true, false, false, the first later call at hour 13 answers
\* true and a call at 13 right after one at 13 answers false.
C12_DigestAtMostOncePerHour ==
    /\ \A i \in DOMAIN CallDues : CallDues[i] => CallHours[i] \in scheduled_hours
    /\ \A i, j \in DOMAIN CallDues :
          (i < j /\ \A k \in i..j : CallHours[k] = CallHours[i])
            => ~(CallDues[i] /\ CallDues[j])
    /\ (sched_log.loaded = None /\ StartsWith(CallHours, <<8, 9, 9, 10>>))
         => /\ StartsWith(CallDues, <<FALSE, TRUE, FALSE, FALSE>>)
            /\ \A j \in 5..Len(CallHours) :
                  CallHours[j] = 13
                    => /\ (\A k \in 5..(j - 1) : CallHours[k] # 13) => CallDues[j]
                       /\ CallHours[j - 1] = 13 => ~CallDues[j]

C12_Witness ==
    /\ sched_log.loaded = None
    /\ CallHours = <<8, 9, 9, 10, 13, 13>>
    /\ CallDues = <<FALSE, TRUE, FALSE, FALSE, TRUE, FALSE>>

\* C13: every call in a target hour whose preceding call, if any, was in a
\* different hour answers true.
C13_DueOnFirstTickOfTargetHour ==
    \A i \in DOMAIN CallHours :
        (CallHours[i] \in scheduled_hours /\ (i = 1 \/ CallHours[i - 1] # CallHours[i]))
          => CallDues[i]

(***************************************************************************)
(* Probe-based checks                                                      *)
(***************************************************************************)
\* the block heights among the answers of the sentries
ValidHeights(answers) ==
    LET ok == SelectSeq(answers, LAMBDA a : a # None)
    IN  [i \in DOMAIN ok |-> Val(ok[i])]

\* the report holds exactly one check with key k, and it has status st
HasCheck(rep, k, st) ==
    Len(ChecksOf(rep, k)) = 1 /\ ChecksOf(rep, k)[1].status = st

\* alert_key of the RPC check of the i-th configured sentry: sentry_{i-1}_rpc
SentryRpcKey(i) == <<"sentry_0_rpc", "sentry_1_rpc", "sentry_2_rpc">>[i]

\* the sentry_height_divergence check that the answers of this tick call for
DivergenceReported(rep, answers) ==
    LET heights == ValidHeights(answers) IN
    IF Len(heights) >= 2
    THEN HasCheck(rep, "sentry_height_divergence",
                  IF Divergence(heights) > th_sentry_height_divergence
                  THEN WARNING ELSE OK)
    ELSE ChecksOf(rep, "sentry_height_divergence") = <<>>

\* C14: on every tick the report holds sentry_height_divergence as WARNING
\* when at least 2 sentries answered with a height and max - min exceeds
\* thresholds.sentry_height_divergence, as OK when at least 2 answered and
\* the divergence is within the bound, and not at all when fewer answered.
C14_SentryHeightDivergence ==
    [][(metrics' # metrics \/ probed' # probed \/ raised' # raised)
        => IF Len(ValidHeights(probed')) >= 2
           THEN raised' = None /\ DivergenceReported(report', probed')
           ELSE raised' = None => DivergenceReported(report', probed')]_vars

\* the alert keys of the checks that need no metrics: the RPC check of each
\* configured sentry and the height divergence
ProbeKeys == {SentryRpcKey(i) : i \in DOMAIN config.sentries} \cup {"sentry_height_divergence"}

\* C18: on a tick whose fetch_metrics returns None the report holds a CRITICAL
\* metrics_endpoint check and no check computed from metrics, and the probe
\* checks are still made: a WARNING sentry_<i>_rpc for exactly the sentries
\* whose RPC gave no height, and the height divergence of the others.
C18_MetricsUnreachable ==
    [][metrics' = None
        => /\ raised' = None
           /\ HasCheck(report', "metrics_endpoint", CRITICAL)
           /\ CheckKeys(report'.checks) \subseteq {"metrics_endpoint"} \cup ProbeKeys
           /\ \A i \in DOMAIN config.sentries :
                 (probed'[i] = None) <=> HasCheck(report', SentryRpcKey(i), WARNING)
           /\ DivergenceReported(report', probed')]_vars

\* without sentries and cosigners, a tick whose fetch_metrics returns None
\* yields a report whose only check is the CRITICAL metrics_endpoint
UnreachableWithoutPeers ==
    [][(metrics' = None /\ config = NoPeers)
        => /\ raised' = None
           /\ report'.metrics_ok = FALSE
           /\ HasCheck(report', "metrics_endpoint", CRITICAL)
           /\ Len(report'.checks) = 1]_vars

(***************************************************************************)
(* Alert lifecycle: the AlertState of an ongoing alert                     *)
(***************************************************************************)
\* the keys that have an AlertState before and after the step, and a problem
\* in the report of the step
Persisting == {k \in AlertKeys : /\ DictHas(active_alerts, k)
                                 /\ k \in ProblemKeys(report')
                                 /\ DictHas(active_alerts', k)}

C16_LastAlertedMonotone ==
    [][/\ now' >= now
       /\ \A k \in DictKeys(active_alerts') :
             LET after == DictGet(active_alerts', k)
             IN  after.first_seen <= after.last_alerted /\ after.last_alerted <= now'
       /\ \A k \in Persisting :
             DictGet(active_alerts', k).last_alerted
               >= DictGet(active_alerts, k).last_alerted]_vars

\* an alert was re-alerted some time after it was first seen, and has been
\* kept through a later tick
C16_Witness ==
    \E k \in DictKeys(active_alerts) :
        LET alert == DictGet(active_alerts, k)
        IN  alert.first_seen < alert.last_alerted /\ alert.last_alerted < now

\* C17: the count of every AlertState is at least 1, never decreases while
\* the alert stays active, and equals the number of reports in a row, up to
\* the last one, that held the problem (1 at creation, one more per tick on
\* which it persists).
C17_CountIsOccurrences ==
    [][/\ DictKeys(active_alerts') = DOMAIN presence'
       /\ \A k \in DictKeys(active_alerts') :
             LET after == DictGet(active_alerts', k)
             IN  after.count >= 1 /\ after.count = presence'[k]
       /\ \A k \in Persisting :
             DictGet(active_alerts', k).count >= DictGet(active_alerts, k).count]_vars

\* one alert has been present on three reports in a row while another one
\* has just been created
C17_Witness ==
    \E k1, k2 \in DictKeys(active_alerts) :
        /\ DictGet(active_alerts, k1).count = 3
        /\ DictGet(active_alerts, k2).count = 1
        /\ presence[k1] = 3

(***************************************************************************)
(* Daemon loop                                                             *)
(***************************************************************************)
\* C19: no evaluation, the startup one included, terminates the daemon with
\* an exception: main() is never ended by one.
C19_NoTickTerminatesDaemon == pos # "crashed"

TickOutlivesSignal ==
    [][(pos = "body" /\ ~running) => (pos' = "body" \/ (pos' = "while" /\ now' > now))]_vars

(***************************************************************************)
(* Alert lifecycle: keys                                                   *)
(***************************************************************************)
\* C26: for a key that is already active, a tick whose CheckResult for that
\* key carries another message yields no new_alerts entry and no recoveries
\* entry for the key; its AlertState is kept, with its first_seen.
C26_DedupByKeyNotMessage ==
    [][\A k \in AlertKeys :
         (/\ DictHas(active_alerts, k)
          /\ k \in ProblemKeys(report')
          /\ DictGet(Problems(report'), k).message # DictGet(active_alerts, k).message)
           => /\ k \notin CheckKeys(result'.new_alerts)
              /\ k \notin RecoveryKeys(result'.recoveries)
              /\ DictHas(active_alerts', k)
              /\ DictGet(active_alerts', k).first_seen
                   = DictGet(active_alerts, k).first_seen]_vars

\* an active alert has taken a message other than the one it had before the
\* tick, and the tick returned no new alert
C26_Witness ==
    \E k \in DictKeys(active_alerts) :
        /\ DictHas(prior_alerts, k)
        /\ DictGet(prior_alerts, k).message # DictGet(active_alerts, k).message
        /\ result.new_alerts = <<>>

\* what one process_report does to key k: its AlertState afterwards, and
\* whether the key is in each of the three returned lists
KeyOutcome(r, k) ==
    [alert    |-> IF DictHas(r.alerts, k) THEN Some(DictGet(r.alerts, k)) ELSE None,
     new      |-> k \in CheckKeys(r.new_alerts),
     re       |-> k \in CheckKeys(r.re_alerts),
     recovery |-> k \in RecoveryKeys(r.recoveries)]

\* process_report on the part of the state and of the report that concerns k
AloneResult(alerts, checks, k, t) ==
    ProcessReportResult(SelectSeq(alerts, LAMBDA e : e.key = k),
                        SelectSeq(checks, LAMBDA ch : ch.alert_key = k), t)

\* C27: on every tick, what process_report does to key k (its AlertState
\* afterwards and its membership in new_alerts, re_alerts and recoveries) is
\* what it does when k is the only key in active_alerts and in the report.
C27_KeysIndependent ==
    [][\A k \in AlertKeys :
         KeyOutcome([alerts     |-> active_alerts',
                     new_alerts |-> result'.new_alerts,
                     re_alerts  |-> result'.re_alerts,
                     recoveries |-> result'.recoveries], k)
           = KeyOutcome(AloneResult(active_alerts, report'.checks, k, now'), k)]_vars

\* one key recovered on the tick on which another key was re-alerted
C27_Witness ==
    /\ Len(result.recoveries) = 1
    /\ Len(result.re_alerts) = 1
    /\ Len(active_alerts) = 1

\* C30: after every process_report the keys of active_alerts are exactly the
\* alert_keys with a WARNING or CRITICAL CheckResult in the report just
\* processed.
C30_ActiveIsCurrentProblems == DictKeys(active_alerts) = ProblemKeys(report)

\* a WARNING alert was dropped on the tick its problem was absent, while
\* another key stayed active
C30_Witness ==
    /\ Len(active_alerts) = 1
    /\ \E i \in DOMAIN prior_alerts :
          /\ prior_alerts[i].val.severity = WARNING
          /\ ~DictHas(active_alerts, prior_alerts[i].key)

(***************************************************************************)
(* Stateless threshold checks                                              *)
(***************************************************************************)
\* C28: on every run() that returns a report, whatever the earlier ticks
\* were, the missed_prevotes check is WARNING when signer_missed_prevotes is
\* above thresholds.missed_prevotes and OK otherwise, and the
\* missed_precommits check is CRITICAL when signer_missed_precommits is above
\* thresholds.missed_precommits and OK otherwise: a value equal to the
\* threshold is OK.
C28_ThresholdStrictExcess ==
    [][\A m \in {Val(f) : f \in SignalSnapshots \ {None}} :
         Returned(m) =>
           /\ HasCheck(report', "missed_prevotes",
                       IF m["signer_missed_prevotes"] > th_missed_prevotes
                       THEN WARNING ELSE OK)
           /\ HasCheck(report', "missed_precommits",
                       IF m["signer_missed_precommits"] > th_missed_precommits
                       THEN CRITICAL ELSE OK)
      ]_vars

\* a later tick on which both gauges sit exactly at their thresholds: both
\* checks are OK
C28_Witness ==
    /\ raised = None
    /\ metrics # None
    /\ get_metric(Val(metrics), "signer_missed_prevotes") = Some(th_missed_prevotes)
    /\ get_metric(Val(metrics), "signer_missed_precommits") = Some(th_missed_precommits)
    /\ HasCheck(report, "missed_prevotes", OK)
    /\ HasCheck(report, "missed_precommits", OK)
    /\ checker.height_stale_count >= 2

(***************************************************************************)
(* Severity of a check                                                     *)
(***************************************************************************)
\* the alert_keys said to fail as CRITICAL; every other key fails as WARNING
CriticalKeys ==
    {"metrics_endpoint", "height_stale", "missed_precommits",
     "insufficient_cosigners", "invalid_signatures"}

FixedSeverity(k) == IF k \in CriticalKeys THEN CRITICAL ELSE WARNING

\* the alert_keys of the checks that a loud snapshot makes fail
LoudKeys ==
    {"raft_election_timeouts", "height_stale", "missed_prevotes",
     "missed_precommits", "insufficient_cosigners", "sentry_connect_tries",
     "invalid_signatures", "beyond_block_errors", "failed_sign_votes",
     "sign_finish_stale", "ephemeral_share_stale", "fd_usage", "memory_usage",
     "goroutine_growth"}

\* C29: every non-OK CheckResult of every report has the status fixed for its
\* alert_key -- CRITICAL for metrics_endpoint, height_stale,
\* missed_precommits, insufficient_cosigners and invalid_signatures, WARNING
\* for every other key -- and every AlertState holds that same severity, so
\* the severity stored at creation is that of each later CheckResult of the
\* key.
C29_FixedSeverityPerKey ==
    /\ \A i \in DOMAIN report.checks :
          report.checks[i].status # OK =>
            /\ report.checks[i].status = FixedSeverity(report.checks[i].alert_key)
            /\ report.checks[i].severity = report.checks[i].status
    /\ \A k \in DictKeys(active_alerts) :
          DictGet(active_alerts, k).severity = FixedSeverity(k)

\* a tick on which every check of the snapshot fails at once, the alerts of
\* the gauges being on their fourth occurrence
C29_Witness ==
    /\ raised = None
    /\ ProblemKeys(report) = LoudKeys
    /\ DictKeys(active_alerts) = LoudKeys
    /\ DictGet(active_alerts, "missed_precommits").count = 4
    /\ DictGet(active_alerts, "missed_prevotes").count = 4

(***************************************************************************)
(* Role-dependent checks                                                   *)
(***************************************************************************)
\* C24: a report that run() returns holds a WARNING sign_finish_stale check
\* only if the snapshot of that same run holds
\* signer_seconds_since_last_precommit below block_time * 3 (the node is
\* leader on this tick) and a sign-finish age above
\* block_time * sign_finish_stale_factor; a run whose snapshot lacks the age
\* of the last precommit never returns that WARNING, whatever role an
\* earlier tick found.
C24_StaleSignFinishNeedsLeaderNow ==
    [][(raised' = None /\ Warns(report', "sign_finish_stale")) =>
         /\ Reads("signer_seconds_since_last_precommit")
         /\ Val(metrics')["signer_seconds_since_last_precommit"] < block_time * 3
         /\ Reads("signer_seconds_since_last_local_sign_finish_time")
         /\ Val(metrics')["signer_seconds_since_last_local_sign_finish_time"]
                > block_time * th_sign_finish_stale_factor
      ]_vars

\* a later tick of a leader whose last sign finish is too old: the check warns
C24_Witness ==
    /\ raised = None
    /\ metrics = Some(Snapshot(1, "loud"))
    /\ HasCheck(report, "sign_finish_stale", WARNING)
    /\ report.is_raft_leader = Some(TRUE)
    /\ checker.height_stale_count >= 1

\* On a tick whose snapshot lacks the age of the last precommit, run() either
\* raises or returns a report without a WARNING sign_finish_stale check, also
\* right after a tick that warned as leader.
RoleNotCarriedOver ==
    [][(metrics' # None /\ ~Reads("signer_seconds_since_last_precommit")
          /\ Warns(report, "sign_finish_stale"))
         => (raised' # None \/ ~Warns(report', "sign_finish_stale"))]_vars

(***************************************************************************)
(* Absent metrics                                                          *)
(***************************************************************************)
\* the series without which the check of an alert_key is not emitted
Needs(k) ==
    CASE k = "raft_election_timeouts" -> {"signer_total_raft_leader_election_timeout"}
      [] k = "height_stale"           -> {"signer_last_prevote_height"}
      [] k = "missed_prevotes"        -> {"signer_missed_prevotes"}
      [] k = "missed_precommits"      -> {"signer_missed_precommits"}
      [] k = "insufficient_cosigners" -> {"signer_error_total_insufficient_cosigners"}
      [] k = "sentry_connect_tries"   -> {"signer_sentry_connect_tries"}
      [] k = "invalid_signatures"     -> {"signer_error_total_invalid_signatures"}
      [] k = "beyond_block_errors"    -> {"signer_total_beyond_block_errors"}
      [] k = "failed_sign_votes"      -> {"signer_total_failed_sign_vote"}
      [] k = "sign_finish_stale"      -> {"signer_seconds_since_last_local_sign_finish_time"}
      [] k = "ephemeral_share_stale"  -> {"signer_seconds_since_last_local_ephemeral_share_time"}
      [] k = "fd_usage"               -> {"process_open_fds", "process_max_fds"}
      [] k = "memory_usage"           -> {"process_resident_memory_bytes"}
      [] k = "goroutine_growth"       -> {"go_goroutines"}

\* the series that the check of an alert_key reads: those it needs, the role
\* for sign_finish_stale, the ephemeral-share age for height_stale
Consults(k) ==
    Needs(k) \cup
    CASE k = "sign_finish_stale" -> {"signer_seconds_since_last_precommit"}
      [] k = "height_stale" -> {"signer_seconds_since_last_local_ephemeral_share_time"}
      [] OTHER -> {}

\* run() on a full snapshot from which the series x was taken away: it
\* returns a report, in which no check that needs x appears and every check
\* that does not read x is the one that the full snapshot would have given
AbsenceHandled(full, x) ==
    metrics' = Some(Without(full, {x})) =>
      LET whole == RunResult(checker, config, Some(full)) IN
      /\ raised' = None
      /\ \A k \in LoudKeys :
            IF x \in Needs(k)
            THEN ChecksOf(report', k) = <<>>
            ELSE x \notin Consults(k)
                   => ChecksOf(report', k) = ChecksOf(whole.report, k)

\* C25: when one series is absent from a snapshot that the source did serve,
\* run() returns a report that holds no CheckResult, OK or failing, for the
\* checks that need the series, and for every other check the CheckResult
\* that the same snapshot with the series present would have given.
C25_AbsentMetricSkipsItsChecks ==
    [][\A kind \in {"quiet", "loud"}, x \in SeriesNames :
         AbsenceHandled(Snapshot(1, kind), x)]_vars

\* The same for every series but the age of the last precommit.
AbsenceHandledButRole ==
    [][\A kind \in {"quiet", "loud"},
          x \in SeriesNames \ {"signer_seconds_since_last_precommit"} :
         AbsenceHandled(Snapshot(1, kind), x)]_vars

\* a snapshot that lacks only the age of the last precommit: run() raises
RoleAbsentRaises ==
    /\ metrics = Some(Without(Snapshot(1, "quiet"), {"signer_seconds_since_last_precommit"}))
    /\ raised = Some("AttributeError")

(***************************************************************************)
(* Notification fan-out                                                    *)
(***************************************************************************)
\* C21: for every message and every list of sinks, notify_all calls send on
\* every sink of the list, in the order of the list, whether or not an
\* earlier sink raised or returned failure, and lets no exception through
\* to its caller.
C21_EverySinkAttempted ==
    /\ delivery.raised = None
    /\ Len(delivery.attempts) = Len(delivery.notifiers)
    /\ \A i \in DOMAIN delivery.notifiers :
          delivery.attempts[i].sink = delivery.notifiers[i]

\* the first sink raised, the second returned failure, and the third was
\* still sent the message
C21_Witness ==
    /\ Len(delivery.attempts) = 3
    /\ delivery.attempts[1].outcome = "raised"
    /\ delivery.attempts[2] = [sink |-> "slack", outcome |-> "False"]
    /\ delivery.attempts[3] = [sink |-> "telegram", outcome |-> "True"]
    /\ delivery.raised = None

(***************************************************************************)
(* Persistence across a restart                                            *)
(***************************************************************************)
\* the alert_keys held by the state file
SavedKeys == IF state_file = None THEN {} ELSE DictKeys(Val(state_file).active_alerts)

\* A StateManager constructed on the file that save_state has just written
\* holds every active alert_key, in the same order, with the same severity,
\* message, first_seen, last_alerted and count, and the same
\* last_scheduled_hour; a restarted process starts from exactly what the file
\* holds; and on the first evaluation after the restart a problem whose key
\* was saved is not returned in new_alerts and keeps its first_seen.
SavedStateSurvivesRestart ==
    [][/\ state_file' # state_file =>
            _load_state(state_file') =
                [active_alerts |-> active_alerts',
                 last_scheduled_hour |-> last_scheduled_hour']
       /\ (pos \in {"exited", "crashed"} /\ pos' = "startup" /\ state_file # None) =>
            /\ last_scheduled_hour' = Val(state_file).last_scheduled_hour
            /\ DictKeys(active_alerts') = SavedKeys
            /\ \A k \in SavedKeys :
                  LET saved == DictGet(Val(state_file).active_alerts, k)
                      restored == DictGet(active_alerts', k)
                  IN  /\ restored.severity = saved.severity
                      /\ restored.message = saved.message
                      /\ restored.first_seen = saved.first_seen
                      /\ restored.last_alerted = saved.last_alerted
                      /\ restored.count = saved.count
       /\ (pos = "startup" /\ pos' \in {"while", "exited"}) =>
            \A k \in SavedKeys \cap ProblemKeys(report') :
                /\ k \notin CheckKeys(result'.new_alerts)
                /\ DictHas(active_alerts', k)
                /\ DictGet(active_alerts', k).first_seen
                      = DictGet(Val(state_file).active_alerts, k).first_seen
      ]_vars

\* the startup evaluation of a restarted process has found the problem that
\* was saved before the restart: it is counted a second time and not new
SavedAlertFoundAgain ==
    /\ pos \in {"while", "exited"}
    /\ metrics = Some(TroubledSnapshot)
    /\ Len(observed.goroutines) = 1
    /\ DictHas(active_alerts, "missed_precommits")
    /\ DictGet(active_alerts, "missed_precommits").count = 2
    /\ DictGet(active_alerts, "missed_precommits").first_seen < now
    /\ result.new_alerts = <<>>

DistinctKeys(ks) == \A i, j \in DOMAIN ks : ks[i] = ks[j] => i = j

CheckKeySeq(cs) == [i \in DOMAIN cs |-> cs[i].alert_key]
RecoveryKeySeq(rs) == [i \in DOMAIN rs |-> rs[i].key]

\* C31: after every process_report the key sets of new_alerts, re_alerts and
\* recoveries are pairwise disjoint, no key is listed twice in any of them,
\* new_alerts and re_alerts hold only keys of the report's problem set, and
\* recoveries holds none of them.
C31_OutputsPartitioned ==
    LET new == CheckKeys(result.new_alerts)
        re  == CheckKeys(result.re_alerts)
        rec == RecoveryKeys(result.recoveries)
    IN  /\ new \cap re = {}
        /\ new \cap rec = {}
        /\ re \cap rec = {}
        /\ DistinctKeys(CheckKeySeq(result.new_alerts))
        /\ DistinctKeys(CheckKeySeq(result.re_alerts))
        /\ DistinctKeys(RecoveryKeySeq(result.recoveries))
        /\ (new \cup re) \subseteq ProblemKeys(report)
        /\ rec \cap ProblemKeys(report) = {}

\* one tick re-alerted one key and recovered the other
C31_Witness ==
    /\ Len(result.re_alerts) = 1
    /\ Len(result.recoveries) = 1

\* one tick raised one key as new while the other was re-alerted
C31_WitnessNewAndReAlert ==
    /\ Len(result.new_alerts) = 1
    /\ Len(result.re_alerts) = 1

(***************************************************************************)
(* An outage of the metrics source                                         *)
(***************************************************************************)
\* C32: on a tick whose fetch fails the report holds the metrics_endpoint
\* check alone; every other active alert is removed and returned once in
\* recoveries, and metrics_endpoint is returned in new_alerts unless it was
\* active already.  On the tick the metrics are back, every problem of the
\* report is a new alert whose AlertState starts at that tick with count 1.
C32_OutageRecoversThenRenews ==
    [][ /\ (metrics' = None /\ raised' = None) =>
             /\ CheckKeys(report'.checks) = {"metrics_endpoint"}
             /\ \A k \in DictKeys(active_alerts) \ {"metrics_endpoint"} :
                   /\ ~DictHas(active_alerts', k)
                   /\ Cardinality({i \in DOMAIN result'.recoveries :
                                       result'.recoveries[i].key = k}) = 1
             /\ ~DictHas(active_alerts, "metrics_endpoint")
                   => CheckKeys(result'.new_alerts) = {"metrics_endpoint"}
        /\ (metrics = None /\ raised = None /\ metrics' # None /\ raised' = None) =>
             \A k \in ProblemKeys(report') :
                 /\ k \in CheckKeys(result'.new_alerts)
                 /\ DictGet(active_alerts', k).first_seen = now'
                 /\ DictGet(active_alerts', k).last_alerted = now'
                 /\ DictGet(active_alerts', k).count = 1
      ]_vars

\* the fetch has failed while height_stale and missed_precommits were
\* active, both on a later occurrence than their first
C32_Witness ==
    /\ metrics = None
    /\ raised = None
    /\ CheckKeys(result.new_alerts) = {"metrics_endpoint"}
    /\ {"height_stale", "missed_precommits"} \subseteq RecoveryKeys(result.recoveries)
    /\ DictGet(prior_alerts, "missed_precommits").count >= 2
    /\ \A i \in DOMAIN result.recoveries : result.recoveries[i].duration > 0

\* the metrics are back after an outage with the height still stuck and the
\* precommits still missed: both are new alerts
C32_WitnessReturn ==
    /\ metrics # None
    /\ raised = None
    /\ {"height_stale", "missed_precommits"} \subseteq CheckKeys(result.new_alerts)
    /\ \E i \in DOMAIN result.recoveries :
          /\ result.recoveries[i].key = "metrics_endpoint"
          /\ result.recoveries[i].duration > 0
    /\ DictGet(active_alerts, "height_stale").count = 1
    /\ DictGet(active_alerts, "height_stale").first_seen = now

\* what the Checker remembers of one series
MemoryOf(c, name) ==
    IF name = "signer_last_prevote_height" THEN <<c.prev_height, c.height_stale_count>>
    ELSE IF name = "go_goroutines" THEN <<c.prev_goroutines, c.goroutine_grow_streak>>
    ELSE IF name = "signer_error_total_invalid_signatures" THEN <<c.prev_invalid_signatures>>
    ELSE <<>>

\* the last element of a non-empty history
LastOf(q) == q[Len(q)]

\* C33: a call of run() whose fetch fails leaves the whole memory of the
\* Checker as it was, and a call on a snapshot that lacks a series leaves
\* what is remembered of that series as it was; so the first reading after an
\* outage is compared with the last reading made before it.
C33_OutageKeepsMemory ==
    [][ /\ metrics' = None => checker' = checker
        /\ \A x \in OutageNames :
              (metrics' # None /\ x \notin DOMAIN Val(metrics'))
                => MemoryOf(checker', x) = MemoryOf(checker, x)
        /\ ( /\ metrics = None
              /\ metrics' # None
              /\ "signer_last_prevote_height" \in DOMAIN Val(metrics')
              /\ observed.heights # <<>> )
            => checker'.height_stale_count =
                 IF Val(metrics')["signer_last_prevote_height"] <= LastOf(observed.heights)
                 THEN checker.height_stale_count + 1
                 ELSE 0
        /\ ( /\ metrics = None
              /\ metrics' # None
              /\ "go_goroutines" \in DOMAIN Val(metrics')
              /\ observed.goroutines # <<>> )
            => checker'.goroutine_grow_streak =
                 IF Val(metrics')["go_goroutines"] > LastOf(observed.goroutines)
                 THEN checker.goroutine_grow_streak + 1
                 ELSE 0
      ]_vars

\* the source is unreachable while the Checker remembers a height, a streak
\* of two ticks without progress, a goroutine reading and a counter
C33_Witness ==
    /\ metrics = None
    /\ checker.prev_height # None
    /\ checker.height_stale_count = 2
    /\ checker.prev_goroutines # None
    /\ checker.prev_invalid_signatures # None

(***************************************************************************)
(* What the daemon gives to notify_all                                     *)
(***************************************************************************)
\* the alert keys listed by the messages of one kind
OutboxKeys(box, kind) ==
    UNION {{box[i].keys[j] : j \in DOMAIN box[i].keys} :
              i \in {n \in DOMAIN box : box[n].kind = kind}}

\* the step is a startup evaluation that went through, or a loop tick
StartupDone == pos = "startup" /\ pos' \in {"while", "exited"}
LoopTick == pos = "body" /\ pos' = "while"

C34_WitnessSilentRecovery ==
    /\ RecoveryKeys(result.recoveries) = {"missed_precommits"}
    /\ outbox = <<Message("startup", <<>>)>>
    /\ active_alerts = <<>>
    /\ state_file = Saved(<<>>, last_scheduled_hour)

\* the last loop tick ran process_report and then raised in format_full_report
DigestRaised(isDue, rep, exc) == exc = None /\ isDue /\ format_full_report(rep) # None

C35_WitnessCaughtUp ==
    /\ pos = "while"
    /\ raised = None
    /\ ~due
    /\ last_scheduled_hour = Some(9)
    /\ outbox = <<>>
    /\ DictHas(active_alerts, "metrics_endpoint")
    /\ DictGet(active_alerts, "metrics_endpoint").count = 2
    /\ state_file = Saved(active_alerts, last_scheduled_hour)

(***************************************************************************)
(* The height streak under follower suppression                            *)
(***************************************************************************)
\* a step on which run() read a prevote height that does not exceed the one
\* the Checker remembers
StillStuck ==
    /\ Reads("signer_last_prevote_height")
    /\ checker.prev_height # None
    /\ Val(metrics')["signer_last_prevote_height"] <= Val(checker.prev_height)

\* C36: on every tick without progress of the prevote height
\* height_stale_count grows by one, on an active follower as well, where the
\* check stays OK; on the first tick on which the node is no longer an active
\* follower and the height has still not increased, the check is CRITICAL at
\* once if the count has reached height_stale_checks.
C36_SuppressionKeepsCounting ==
    [][StillStuck =>
         /\ checker'.height_stale_count = checker.height_stale_count + 1
         /\ (raised' = None /\ ActiveFollower(Val(metrics')))
               => HasCheck(report', "height_stale", OK)
         /\ ( /\ raised' = None
               /\ metrics # None
               /\ ActiveFollower(Val(metrics))
               /\ ~ActiveFollower(Val(metrics'))
               /\ checker'.height_stale_count >= th_height_stale_checks )
             => HasCheck(report', "height_stale", CRITICAL)
      ]_vars

\* the node is an active follower, the check is OK, and the streak has grown
\* past height_stale_checks
C36_Witness ==
    /\ raised = None
    /\ metrics # None
    /\ ActiveFollower(Val(metrics))
    /\ "signer_last_prevote_height" \in DOMAIN Val(metrics)
    /\ checker.height_stale_count = th_height_stale_checks + 1
    /\ HasCheck(report, "height_stale", OK)

\* the node is not an active follower and the check is CRITICAL with a streak
\* longer than height_stale_checks
C36_WitnessReleased ==
    /\ raised = None
    /\ metrics # None
    /\ ~ActiveFollower(Val(metrics))
    /\ checker.height_stale_count = th_height_stale_checks + 2
    /\ HasCheck(report, "height_stale", CRITICAL)

(***************************************************************************)
(* The two halves of the StateManager                                      *)
(***************************************************************************)
\* the step is a call of process_report, or of is_scheduled_report_due
ProcessStep == now' # now
AskStep == sched_log' # sched_log

C38_FirstSeenFixed ==
    [][ /\ DictKeys(active_alerts') = DOMAIN entered'
        /\ \A k \in DictKeys(active_alerts') :
              DictGet(active_alerts', k).first_seen = entered'[k]
        /\ \A k \in Persisting :
              DictGet(active_alerts', k).first_seen = DictGet(active_alerts, k).first_seen
        /\ \A i \in DOMAIN result'.recoveries :
              LET k == result'.recoveries[i].key IN
              /\ k \in DOMAIN entered
              /\ result'.recoveries[i].duration = now' - entered[k]
      ]_vars

\* an alert that entered at the first tick, was re-alerted later and has now
\* recovered with the whole time since its entry as duration
C38_Witness ==
    \E i \in DOMAIN result.recoveries :
        LET k == result.recoveries[i].key IN
        /\ DictGet(prior_alerts, k).first_seen < DictGet(prior_alerts, k).last_alerted
        /\ DictGet(prior_alerts, k).count >= 3
        /\ result.recoveries[i].duration = now - DictGet(prior_alerts, k).first_seen
        /\ result.recoveries[i].duration >= 2 * alert_cooldown

(***************************************************************************)
(* Shutdown                                                                *)
(***************************************************************************)
\* main() has returned or has been ended by an exception
Terminated == pos \in {"exited", "crashed"}

\* once running is cleared, main() ends
ShutdownEnds == ~running ~> Terminated

\* once running is cleared no tick begins: the evaluation in progress, at
\* startup or in the loop, runs to its end, and the loop test and the sleep
\* lead out of main()
NoTickAfterSignal ==
    [][~running =>
         \/ pos' = pos
         \/ pos \in {"startup", "body"} /\ pos' = "while"
         \/ Terminated']_vars

\* with --once, main() ends with its startup evaluation, by returning after
\* one save_state of what that evaluation left in memory
OnceEvaluatesAndSaves ==
    [][(pos = "startup" /\ pos' # "startup" /\ once')
         => /\ pos' = "exited"
            /\ state_file' = Saved(active_alerts', last_scheduled_hour')]_vars

\* C39: after a signal has cleared running the daemon ends; at most the
\* evaluation in progress completes and no tick begins after the sleep during
\* or before which the signal arrived; with --once the process ends after
\* exactly one evaluation and one save_state.
C39_ShutdownTerminates ==
    /\ ShutdownEnds
    /\ NoTickAfterSignal
    /\ OnceEvaluatesAndSaves

\* with --once and every series present, main() has returned after one
\* evaluation and one save_state
OnceSavedAndExited ==
    /\ once
    /\ pos = "exited"
    /\ raised = None
    /\ metrics = Some(HealthySnapshot)
    /\ state_file = Saved(active_alerts, last_scheduled_hour)

\* the loop has run at least one tick and, running having been cleared,
\* main() has returned
SignalledTickCompleted ==
    /\ ~running
    /\ ~once
    /\ pos = "exited"
    /\ now > 0
====
